---- MODULE Spec2Model ----
(***************************************************************************)
(* Ingestion pipeline of umbrella-reg-comm-mon.                            *)
(*                                                                         *)
(* SpecDeliver : the connector delivery engine (BaseConnector._deliver     *)
(*               driven by BaseConnector._run_ingest_loop): broker publish *)
(*               under the tenacity retry policy, dead-letter fallback,    *)
(*               best-effort HTTP forward.                                 *)
(* SpecEmail   : the Stage-1 email connector (EmailConnector.ingest /      *)
(*               backfill over AsyncImapClient and S3Store).               *)
(* SpecConsumers : the consume loops of the Stage-2 email processor        *)
(*               (EmailProcessor._consume_loop) and of the Normalization   *)
(*               service (IngestionService._consume_loop, _dual_write).    *)
(* SpecRun     : the connector life cycle (BaseConnector.run with its      *)
(*               ingest loop task and health server task); SpecRunFair     *)
(*               adds the fairness of the event loop.                      *)
(* SpecDeliverBase : SpecDeliver with publish errors that are no          *)
(*               Exception (BaseException), which the retry policy and     *)
(*               _deliver let through.                                     *)
(* SpecBackoff : the backoff schedule of with_retry (tenacity              *)
(*               wait_exponential) over the explored RetryConfig values.   *)
(* SpecService : run() of a consumer service (EmailProcessor.run,          *)
(*               IngestionService.run) around its consume loop, with the   *)
(*               readiness it reports.                                     *)
(* SpecNormalizer : EmailNormalizer direction detection, and attachment    *)
(*               names from the keys Stage-2 stores them under.            *)
(* SpecShutdown : one process, a connector or a consumer service, up to    *)
(*               and through its shutdown.                                 *)
(* SpecStore   : NormalizedS3Store.store over the explored normalized      *)
(*               messages and the object keys it writes them under.        *)
(***************************************************************************)
EXTENDS Integers, Sequences, FiniteSets, TLC

(* ------------------------------ bounds --------------------------------- *)

\* largest retry budget (RetryConfig.max_attempts) explored
MaxAttemptsBound == 3

\* number of messages the ingest iterator yields to the delivery engine
NumMessages == 2

\* largest UID the mailbox assigns
MaxUid == 2

\* calendar days the mailbox messages are dated on
NumDays == 1

\* number of ingest() / backfill() generators one connector runs
MaxRuns == 2

\* number of records each consumer service takes from its source topic
NumRecords == 2

\* largest number of attachments of one email
MaxAttachments == 1

\* largest RetryConfig.initial_wait_seconds explored (whole seconds)
MaxInitialWait == 2

\* largest RetryConfig.multiplier explored
MaxMultiplier == 3

\* largest small RetryConfig.max_wait_seconds explored, besides the default 60
MaxWaitBound == 4

\* longest to, cc and bcc list of a parsed message
MaxRecipients == 1

\* longest attachment file name
MaxNameLen == 3

\* longest message_id of a normalized message
MaxIdLen == 2

\* texts of the exceptions raised by the broker, the API and the mailbox
Errors == {"down", "timeout"}

Messages == 1 .. NumMessages

VARIABLES
    \* ---- delivery engine (base.py) ----
    max_attempts,       \* config.retry.max_attempts
    http_enabled,       \* IngestionClient._client is not None (base_url non-empty)
    status,             \* BaseConnector.status
    next_message,       \* index of the next message of self.ingest()
    message,            \* the message _deliver is working on (0: none)
    dpc,                \* position inside _run_ingest_loop / _deliver
    attempt_number,     \* tenacity's retry_state.attempt_number
    exc,                \* text of the exception caught in _deliver
    send_raw_calls,     \* log of producer.send_raw awaits: [message, ok, error]
    raw_topic,          \* records on the raw-messages topic
    dead_letter_calls,  \* envelopes built by DeadLetterHandler.send
    dead_letter_topic,  \* records on the dead-letter topic
    submit_calls,       \* log of ingestion_client.submit awaits
    http_posts,         \* log of POST /v1/ingest requests: [message, ok]
    deliver_outcome,    \* per message: "none", "running", "returned", "raised"
    \* ---- Stage-1 email connector (connector.py, imap_client.py, s3.py) ----
    mailbox,            \* UIDs of the messages on the IMAP server
    msg_day,            \* day each mailbox message is dated on (0: no message)
    last_uid,           \* AsyncImapClient._last_uid (as int)
    conn,               \* AsyncImapClient._conn is not None and usable
    epc,                \* position inside EmailConnector.ingest / backfill
    mode,               \* "none", "ingest" or "backfill"
    criteria,           \* search criteria of the running _search_and_fetch
    uid_list,           \* data[0].split() of the SEARCH response
    results,            \* results list of the running _search_and_fetch
    fetched,            \* list returned by the last poll / search, being iterated
    raw_msg,            \* UID of the RawMessage built by _process_email (0: none)
    s3_puts,            \* UIDs of the raw EML objects put in the object store, in order
    yielded,            \* UIDs of the RawMessages yielded so far, in order
    messages_ingested,  \* EmailConnector._messages_ingested
    runs,               \* number of ingest() / backfill() generators started
    \* ---- observation of the last finished mailbox operation ----
    op,                 \* record describing the running / last _search_and_fetch
    \* ---- Stage-2 email processor (processor.py, s3.py) ----
    p_source,           \* records taken from the raw-messages topic, in order
    p_committed,        \* committed offset: records covered by the last commit
    p_pc,               \* position inside EmailProcessor._consume_loop
    p_shutdown_event,   \* EmailProcessor._shutdown_event.is_set()
    p_uris,             \* uris list of the running S3Store.upload_attachments
    p_downloads,        \* log of download_raw_eml awaits: [record, ok]
    p_parses,           \* log of MimeParser.parse calls: [record, ok]
    p_uploads,          \* log of upload_attachment awaits: [record, part, ok]
    p_publishes,        \* log of producer.send_and_wait awaits: [record, ok]
    p_parsed_topic,     \* records on the parsed-messages topic
    p_commits,          \* log of consumer.commit awaits: [record, ok, line]
    p_messages_processed,   \* EmailProcessor._messages_processed
    p_work,             \* per record: how far its handling got
    p_done,             \* per record: how the loop body ended
    p_counted,          \* per record: increments of _messages_processed
    \* ---- Normalization service (service.py) ----
    n_source,           \* records taken from the parsed-messages topic, in order
    n_committed,        \* committed offset: records covered by the last commit
    n_pc,               \* position inside IngestionService._consume_loop
    n_shutdown_event,   \* IngestionService._shutdown_event.is_set()
    n_normalizes,       \* log of normalizer.normalize calls: [record, ok]
    n_kafka_writes,     \* log of producer.send_and_wait awaits: [record, ok]
    n_s3_writes,        \* log of NormalizedS3Store.store awaits: [record, ok]
    n_normalized_topic, \* records on the normalized-messages topic
    n_s3_objects,       \* normalized messages stored in the object store
    n_commits,          \* log of consumer.commit awaits: [record, ok, line]
    n_messages_processed,   \* IngestionService._messages_processed
    n_messages_skipped,     \* IngestionService._messages_skipped
    n_messages_failed,      \* IngestionService._messages_failed
    n_work,             \* per record: how far its handling got
    n_done,             \* per record: how the loop body ended
    n_counted,          \* per record: increments of the three counters
    \* ---- connector life cycle (base.py run, shutdown.py) ----
    shutdown_event,     \* BaseConnector._shutdown_event.is_set()
    rpc,                \* position inside BaseConnector.run
    hpc,                \* position of the _run_health_server task
    spc,                \* state of serve_task, the task running server.serve()
    lifecycle,          \* log of the subsystem start() / stop() calls that returned
    probe,              \* the last answer of the connector's health app
    \* ---- consumer service life cycle (processor.py, service.py: run) ----
    s_rpc,              \* position of run()
    s_consumer,         \* self._consumer: "None" or "consumer"
    s_attached,         \* the consumer is started on the broker
    s_spc,              \* position of the uvicorn serve task
    \* ---- retry backoff (retry.py, config.py) ----
    initial_wait_seconds,   \* RetryConfig.initial_wait_seconds
    multiplier,             \* RetryConfig.multiplier
    max_wait_seconds,       \* RetryConfig.max_wait_seconds
    failed_attempts,        \* attempt_number of the last failed attempt (0: none)
    wait,                   \* seconds tenacity sleeps after that attempt
    \* ---- EmailNormalizer (normalizers/email.py), attachment keys (s3.py) ----
    monitored_domains,  \* EmailNormalizer._monitored_domains
    parsed,             \* the parsed message given to _detect_direction
    direction,          \* the direction it returned
    att_filename,       \* ParsedAttachment.filename of the uploaded attachment
    att_uri,            \* the URI upload_attachment returned for it
    att_name,           \* Attachment.name the normalizer built from the URI
    \* ---- NormalizedS3Store (ingestion-api s3.py) ----
    store_calls,        \* normalized messages passed to store(), in order
    bucket_objects      \* objects of the bucket: [key, message_id]

deliverVars == << max_attempts, http_enabled, status, next_message, message, dpc,
                  attempt_number, exc, send_raw_calls, raw_topic,
                  dead_letter_calls, dead_letter_topic, submit_calls,
                  http_posts, deliver_outcome >>

emailVars == << mailbox, msg_day, last_uid, conn, epc, mode, criteria,
                uid_list, results, fetched, raw_msg, s3_puts, yielded,
                messages_ingested, runs, op >>

procVars == << p_source, p_committed, p_pc, p_shutdown_event, p_uris,
               p_downloads, p_parses, p_uploads, p_publishes, p_parsed_topic,
               p_commits, p_messages_processed, p_work, p_done, p_counted >>

normVars == << n_source, n_committed, n_pc, n_shutdown_event, n_normalizes,
               n_kafka_writes, n_s3_writes, n_normalized_topic, n_s3_objects,
               n_commits, n_messages_processed, n_messages_skipped,
               n_messages_failed, n_work, n_done, n_counted >>

runVars == << shutdown_event, rpc, hpc, spc, lifecycle >>

backoffVars == << initial_wait_seconds, multiplier, max_wait_seconds,
                  failed_attempts, wait >>

probeVars == << probe >>

serviceVars == << s_rpc, s_consumer, s_attached, s_spc >>

normalizerVars == << monitored_domains, parsed, direction, att_filename,
                     att_uri, att_name >>

storeVars == << store_calls, bucket_objects >>

vars == << deliverVars, emailVars, procVars, normVars, runVars, backoffVars,
           probeVars, serviceVars, normalizerVars, storeVars >>

\* what the actions of the delivery engine leave alone
notDeliverVars == << emailVars, procVars, normVars, runVars, backoffVars,
       probeVars, serviceVars, normalizerVars,
       storeVars >>

\* what the actions of the email connector leave alone
notEmailVars == << deliverVars, procVars, normVars, runVars, backoffVars,
       probeVars, serviceVars, normalizerVars,
       storeVars >>

\* what the actions of the Stage-2 processor leave alone
notProcVars ==
    << deliverVars, emailVars, normVars, runVars, backoffVars,
       probeVars, serviceVars, normalizerVars,
       storeVars >>

\* what the actions of the Normalization service leave alone
notNormVars ==
    << deliverVars, emailVars, procVars, runVars, backoffVars,
       probeVars, serviceVars, normalizerVars,
       storeVars >>

\* what the steps of BaseConnector.run leave alone, status and dpc apart
notRunVars == << max_attempts, http_enabled, next_message, message,
                 attempt_number, exc, send_raw_calls, raw_topic,
                 dead_letter_calls, dead_letter_topic, submit_calls,
                 http_posts, deliver_outcome, emailVars, procVars, normVars,
                 backoffVars, probeVars, serviceVars, normalizerVars,
       storeVars >>

\* what the retry backoff leaves alone
notBackoffVars ==
    << deliverVars, emailVars, procVars, normVars, runVars, probeVars,
       serviceVars, normalizerVars,
       storeVars >>

\* what a probe of the health app leaves alone
notProbeVars ==
    << deliverVars, emailVars, procVars, normVars, runVars, backoffVars,
       serviceVars, normalizerVars,
       storeVars >>

\* what the steps of a consumer service's run() leave alone
notServiceVars ==
    << deliverVars, emailVars, procVars, normVars, runVars, backoffVars,
       probeVars, normalizerVars, storeVars >>

\* what the normalizer and the attachment upload leave alone
notNormalizerVars ==
    << deliverVars, emailVars, procVars, normVars, runVars, backoffVars,
       probeVars, serviceVars, storeVars >>

\* what NormalizedS3Store.store leaves alone
notStoreVars ==
    << deliverVars, emailVars, procVars, normVars, runVars, backoffVars,
       probeVars, serviceVars, normalizerVars >>

(* ======================================================================= *)
(* Delivery engine                                                         *)
(* ======================================================================= *)

\* stop_after_attempt that stops one attempt late
StopAfterAttempt_OffByOne(n, attempt) == attempt > n

\* tenacity stop_after_attempt(n): stop once attempt_number >= n
StopAfterAttempt(n, attempt) == attempt >= n

\* tenacity retry_if_exception_type((Exception,)): every Exception is retried
RetryIfExceptionType(kind) == kind = "Exception"

\* with_retry(config)(fn), after an attempt that raised an exception of class
\* `kind`: TRUE when another attempt follows, FALSE when the exception is
\* re-raised to the caller (reraise=True)
with_retry(n, attempt, kind) ==
    RetryIfExceptionType(kind) /\ ~StopAfterAttempt(n, attempt)

\* DeadLetterEnvelope built by DeadLetterHandler.send
DeadLetterEnvelope(m, error, attempts) ==
    [original_message |-> m, error |-> error, attempts |-> attempts]

InitDeliver ==
    /\ max_attempts \in 1 .. MaxAttemptsBound
    /\ http_enabled \in BOOLEAN
    /\ status = "starting"
    /\ next_message = 1
    /\ message = 0
    /\ dpc = "loop_start"
    /\ attempt_number = 0
    /\ exc = "none"
    /\ send_raw_calls = << >>
    /\ raw_topic = << >>
    /\ dead_letter_calls = << >>
    /\ dead_letter_topic = << >>
    /\ submit_calls = << >>
    /\ http_posts = << >>
    /\ deliver_outcome = [m \in Messages |-> "none"]

\* _run_ingest_loop up to the first `async for` step
IngestLoopStart ==
    /\ dpc = "loop_start"
    /\ status' = "running"
    /\ dpc' = "loop_next"
    /\ UNCHANGED << max_attempts, http_enabled, next_message, message,
                    attempt_number, exc, send_raw_calls, raw_topic,
                    dead_letter_calls, dead_letter_topic, submit_calls,
                    http_posts, deliver_outcome >>
    /\ UNCHANGED notDeliverVars

\* the delivery started as a task of its own: the next message is taken
\* while the HTTP forward of the one before is still awaited
IngestLoopNext_NoWait ==
    /\ dpc \in {"loop_next", "submit"}
    /\ next_message <= NumMessages
    /\ ~shutdown_event
    /\ message' = next_message
    /\ next_message' = next_message + 1
    /\ attempt_number' = 1
    /\ exc' = "none"
    /\ dpc' = "send_kafka"
    /\ deliver_outcome' = [deliver_outcome EXCEPT ![next_message] = "running"]
    /\ UNCHANGED << max_attempts, http_enabled, status, send_raw_calls,
                    raw_topic, dead_letter_calls, dead_letter_topic,
                    submit_calls, http_posts >>
    /\ UNCHANGED notDeliverVars

\* `async for message in iterator`: the next message enters _deliver,
\* the shutdown event not being set
IngestLoopNext ==
    /\ dpc = "loop_next"
    /\ next_message <= NumMessages
    /\ ~shutdown_event
    /\ message' = next_message
    /\ next_message' = next_message + 1
    /\ attempt_number' = 1
    /\ exc' = "none"
    /\ dpc' = "send_kafka"
    /\ deliver_outcome' = [deliver_outcome EXCEPT ![next_message] = "running"]
    /\ UNCHANGED << max_attempts, http_enabled, status, send_raw_calls,
                    raw_topic, dead_letter_calls, dead_letter_topic,
                    submit_calls, http_posts >>
    /\ UNCHANGED notDeliverVars

\* the iterator is exhausted: the loop ends normally
IngestLoopEnd ==
    /\ dpc = "loop_next"
    /\ next_message > NumMessages
    /\ dpc' = "loop_stopped"
    /\ UNCHANGED << max_attempts, http_enabled, status, next_message, message,
                    attempt_number, exc, send_raw_calls, raw_topic,
                    dead_letter_calls, dead_letter_topic, submit_calls,
                    http_posts, deliver_outcome >>
    /\ UNCHANGED notDeliverVars

\* an attempt whose publish succeeded but which raises afterwards inside the
\* retried function, so that the retry policy treats it as failed
SendKafkaOk_RaisesAfterPublish ==
    /\ dpc = "send_kafka"
    /\ send_raw_calls' = Append(send_raw_calls, [message |-> message, ok |-> TRUE, error |-> "none"])
    /\ raw_topic' = Append(raw_topic, message)
    /\ IF with_retry(max_attempts, attempt_number, "Exception")
       THEN /\ attempt_number' = attempt_number + 1
            /\ dpc' = "send_kafka"
            /\ exc' = exc
       ELSE /\ attempt_number' = attempt_number
            /\ exc' = "down"
            /\ dpc' = "dead_letter"
    /\ UNCHANGED << max_attempts, http_enabled, status, next_message, message,
                    dead_letter_calls, dead_letter_topic, submit_calls,
                    http_posts, deliver_outcome >>
    /\ UNCHANGED notDeliverVars

\* one attempt of _send_kafka under the retry decorator; the publish succeeds
SendKafkaOk ==
    /\ dpc = "send_kafka"
    /\ send_raw_calls' = Append(send_raw_calls, [message |-> message, ok |-> TRUE, error |-> "none"])
    /\ raw_topic' = Append(raw_topic, message)
    /\ dpc' = "submit"
    /\ UNCHANGED << max_attempts, http_enabled, status, next_message, message,
                    attempt_number, exc, dead_letter_calls, dead_letter_topic,
                    submit_calls, http_posts, deliver_outcome >>
    /\ UNCHANGED notDeliverVars

\* one attempt of _send_kafka; the publish raises Exception(e)
SendKafkaFail(e) ==
    /\ dpc = "send_kafka"
    /\ send_raw_calls' = Append(send_raw_calls, [message |-> message, ok |-> FALSE, error |-> e])
    /\ IF with_retry(max_attempts, attempt_number, "Exception")
       THEN /\ attempt_number' = attempt_number + 1
            /\ dpc' = "send_kafka"
            /\ exc' = exc
       ELSE \* re-raised into `except Exception as exc`
            /\ attempt_number' = attempt_number
            /\ exc' = e
            /\ dpc' = "dead_letter"
    /\ UNCHANGED << max_attempts, http_enabled, status, next_message, message,
                    raw_topic, dead_letter_calls, dead_letter_topic,
                    submit_calls, http_posts, deliver_outcome >>
    /\ UNCHANGED notDeliverVars

\* one attempt of _send_kafka; the publish raises a BaseException that is
\* not an Exception (KeyboardInterrupt, SystemExit, CancelledError): the
\* retry predicate refuses it, reraise=True lets it out of the retry loop,
\* and neither `except Exception` of _deliver nor that of _run_ingest_loop
\* catches it, so it ends the loop with the status unchanged
SendKafkaRaisesBase ==
    /\ dpc = "send_kafka"
    /\ ~with_retry(max_attempts, attempt_number, "BaseException")
    /\ send_raw_calls' = Append(send_raw_calls,
                                [message |-> message, ok |-> FALSE,
                                 error |-> "BaseException"])
    /\ deliver_outcome' = [deliver_outcome EXCEPT ![message] = "raised"]
    /\ dpc' = "loop_aborted"
    /\ UNCHANGED << max_attempts, http_enabled, status, next_message, message,
                    attempt_number, exc, raw_topic, dead_letter_calls,
                    dead_letter_topic, submit_calls, http_posts >>
    /\ UNCHANGED notDeliverVars

\* dead-letter branch without its `return`: falls through to the HTTP forward
DeadLetterSendOk_FallsThrough ==
    /\ dpc = "dead_letter"
    /\ LET envelope == DeadLetterEnvelope(message, exc, max_attempts)
       IN /\ dead_letter_calls' = Append(dead_letter_calls, envelope)
          /\ dead_letter_topic' = Append(dead_letter_topic, envelope)
    /\ dpc' = "submit"
    /\ UNCHANGED << max_attempts, http_enabled, status, next_message, message,
                    attempt_number, exc, send_raw_calls, raw_topic,
                    submit_calls, http_posts, deliver_outcome >>
    /\ UNCHANGED notDeliverVars

\* DeadLetterHandler.send; the dead-letter publish succeeds, _deliver returns
DeadLetterSendOk ==
    /\ dpc = "dead_letter"
    /\ LET envelope == DeadLetterEnvelope(message, exc, max_attempts)
       IN /\ dead_letter_calls' = Append(dead_letter_calls, envelope)
          /\ dead_letter_topic' = Append(dead_letter_topic, envelope)
    /\ deliver_outcome' = [deliver_outcome EXCEPT ![message] = "returned"]
    /\ dpc' = "loop_next"
    /\ UNCHANGED << max_attempts, http_enabled, status, next_message, message,
                    attempt_number, exc, send_raw_calls, raw_topic,
                    submit_calls, http_posts >>
    /\ UNCHANGED notDeliverVars

\* DeadLetterHandler.send; send_dead_letter raises: nothing catches it in
\* send or in _deliver, so it leaves _deliver and reaches the
\* `except Exception` of _run_ingest_loop, which sets DEGRADED and re-raises
DeadLetterSendFail(e) ==
    /\ dpc = "dead_letter"
    /\ dead_letter_calls' =
          Append(dead_letter_calls, DeadLetterEnvelope(message, exc, max_attempts))
    /\ deliver_outcome' = [deliver_outcome EXCEPT ![message] = "raised"]
    /\ status' = "degraded"
    /\ dpc' = "loop_failed"
    /\ UNCHANGED << max_attempts, http_enabled, next_message, message,
                    attempt_number, exc, send_raw_calls, raw_topic,
                    dead_letter_topic, submit_calls, http_posts >>
    /\ UNCHANGED notDeliverVars

\* IngestionClient.submit with the client disabled: returns without a request
SubmitDisabled ==
    /\ dpc = "submit"
    /\ ~http_enabled
    /\ submit_calls' = Append(submit_calls, message)
    /\ deliver_outcome' = [deliver_outcome EXCEPT ![message] = "returned"]
    /\ dpc' = "loop_next"
    /\ UNCHANGED << max_attempts, http_enabled, status, next_message, message,
                    attempt_number, exc, send_raw_calls, raw_topic,
                    dead_letter_calls, dead_letter_topic, http_posts >>
    /\ UNCHANGED notDeliverVars

\* submit awaited inside the broker try block: an HTTP failure is handled
\* as a delivery failure and dead-letters the message
Submit_DeadLetters(ok) ==
    /\ dpc = "submit"
    /\ http_enabled
    /\ submit_calls' = Append(submit_calls, message)
    /\ http_posts' = Append(http_posts, [message |-> message, ok |-> ok])
    /\ IF ok
       THEN /\ deliver_outcome' = [deliver_outcome EXCEPT ![message] = "returned"]
            /\ dpc' = "loop_next"
            /\ exc' = exc
       ELSE /\ deliver_outcome' = deliver_outcome
            /\ dpc' = "dead_letter"
            /\ exc' = "down"
    /\ UNCHANGED << max_attempts, http_enabled, status, next_message, message,
                    attempt_number, send_raw_calls, raw_topic,
                    dead_letter_calls, dead_letter_topic >>
    /\ UNCHANGED notDeliverVars

\* submit awaited without its try / except: an HTTP failure leaves _deliver
Submit_Unhandled(ok) ==
    /\ dpc = "submit"
    /\ http_enabled
    /\ submit_calls' = Append(submit_calls, message)
    /\ http_posts' = Append(http_posts, [message |-> message, ok |-> ok])
    /\ IF ok
       THEN /\ deliver_outcome' = [deliver_outcome EXCEPT ![message] = "returned"]
            /\ dpc' = "loop_next"
            /\ status' = status
       ELSE /\ deliver_outcome' = [deliver_outcome EXCEPT ![message] = "raised"]
            /\ dpc' = "loop_failed"
            /\ status' = "degraded"
    /\ UNCHANGED << max_attempts, http_enabled, next_message, message,
                    attempt_number, exc, send_raw_calls, raw_topic,
                    dead_letter_calls, dead_letter_topic >>
    /\ UNCHANGED notDeliverVars

\* IngestionClient.submit with the client enabled: one POST, which succeeds
\* or raises; a raise is caught and logged by _deliver
Submit(ok) ==
    /\ dpc = "submit"
    /\ http_enabled
    /\ submit_calls' = Append(submit_calls, message)
    /\ http_posts' = Append(http_posts, [message |-> message, ok |-> ok])
    /\ deliver_outcome' = [deliver_outcome EXCEPT ![message] = "returned"]
    /\ dpc' = "loop_next"
    /\ UNCHANGED << max_attempts, http_enabled, status, next_message, message,
                    attempt_number, exc, send_raw_calls, raw_topic,
                    dead_letter_calls, dead_letter_topic >>
    /\ UNCHANGED notDeliverVars

NextDeliver ==
    \/ IngestLoopStart
    \/ IngestLoopNext
    \/ IngestLoopEnd
    \/ SendKafkaOk
    \/ \E e \in Errors : SendKafkaFail(e)
    \/ DeadLetterSendOk
    \/ \E e \in Errors : DeadLetterSendFail(e)
    \/ SubmitDisabled
    \/ \E ok \in BOOLEAN : Submit(ok)

\* the delivery engine over a broker client that also raises exceptions
\* outside the retryable set
NextDeliverBase == NextDeliver \/ SendKafkaRaisesBase

(* ======================================================================= *)
(* Stage-1 email connector                                                 *)
(* ======================================================================= *)

Days == 1 .. NumDays

SetMax(S) == CHOOSE x \in S : \A y \in S : y <= x

SetMin(S) == CHOOSE x \in S : \A y \in S : x <= y

\* the UIDs of a SEARCH response, in the ascending order the server lists them
RECURSIVE Ascending(_)
Ascending(S) ==
    IF S = {} THEN << >>
    ELSE LET m == SetMin(S) IN << m >> \o Ascending(S \ {m})

\* criteria of poll_new_messages: f"UID {int(last_uid) + 1}:*"
PollCriteria(last) == [kind |-> "uid", from |-> last + 1]

\* criteria of search_by_date_range: strftime("%d-%b-%Y") of both bounds
DateCriteria(since, before) == [kind |-> "date", since |-> since, before |-> before]

\* the server's answer to UID SEARCH: a range n:* always contains the
\* largest UID of a non-empty mailbox (the range is inclusive and `*` is
\* that UID), SINCE/BEFORE compare whole days
SearchResponse(c, box, day) ==
    IF c.kind = "uid"
    THEN {u \in box : u >= c.from} \cup (IF box = {} THEN {} ELSE {SetMax(box)})
    ELSE {u \in box : c.since <= day[u] /\ day[u] < c.before}

\* a skip test that excludes the boundary UID
AlreadySeen_Strict(uid, last) == uid < last

\* `if int(uid) <= int(self._last_uid): continue`
AlreadySeen(uid, last) == uid <= last

\* `if int(uid) > int(self._last_uid): self._last_uid = uid`
AdvanceCursor(uid, last) == IF uid > last THEN uid ELSE last

NoOp == [kind |-> "none", state |-> "none", error |-> "none",
         cursor_before |-> 0, listed |-> {}, fetch_ok |-> {},
         result |-> << >>, mailbox_start |-> {},
         prev_kind |-> "none", prev_state |-> "none", prev_error |-> "none",
         prev_cursor_before |-> 0, prev_result |-> << >>,
         prev_mailbox |-> {}]

\* observation record of a _search_and_fetch call that starts now
StartOp(kind) ==
    [kind |-> kind, state |-> "running", error |-> "none",
     cursor_before |-> last_uid, listed |-> {}, fetch_ok |-> {},
     result |-> << >>, mailbox_start |-> mailbox,
     prev_kind |-> op.kind, prev_state |-> op.state, prev_error |-> op.error,
     prev_cursor_before |-> op.cursor_before, prev_result |-> op.result,
     prev_mailbox |-> op.mailbox_start]

\* the delivery engine is not running (SpecEmail)
InitDeliverIdle ==
    /\ max_attempts = 1
    /\ http_enabled = FALSE
    /\ status = "starting"
    /\ next_message = 1
    /\ message = 0
    /\ dpc = "loop_start"
    /\ attempt_number = 0
    /\ exc = "none"
    /\ send_raw_calls = << >>
    /\ raw_topic = << >>
    /\ dead_letter_calls = << >>
    /\ dead_letter_topic = << >>
    /\ submit_calls = << >>
    /\ http_posts = << >>
    /\ deliver_outcome = [m \in Messages |-> "none"]

\* AsyncImapClient.__init__ / EmailConnector.__init__, over an empty mailbox
InitEmail ==
    /\ mailbox = {}
    /\ msg_day = [u \in 1 .. MaxUid |-> 0]
    /\ last_uid = 0
    /\ conn = FALSE
    /\ epc = "idle"
    /\ mode = "none"
    /\ criteria = [kind |-> "none"]
    /\ uid_list = << >>
    /\ results = << >>
    /\ fetched = << >>
    /\ raw_msg = 0
    /\ s3_puts = << >>
    /\ yielded = << >>
    /\ messages_ingested = 0
    /\ runs = 0
    /\ op = NoOp

\* a message is delivered to the mailbox; the server assigns a larger UID
MailArrives(u, d) ==
    /\ \A v \in mailbox : v < u
    /\ mailbox' = mailbox \cup {u}
    /\ msg_day' = [msg_day EXCEPT ![u] = d]
    /\ UNCHANGED << last_uid, conn, epc, mode, criteria, uid_list, results,
                    fetched, raw_msg, s3_puts, yielded, messages_ingested,
                    runs, op >>
    /\ UNCHANGED notEmailVars

\* ingest(): `await self._imap.connect()`, `await self._s3.start()`;
\* a connect that raises ends the generator before its try block
StartIngest(ok) ==
    /\ epc = "idle"
    /\ runs < MaxRuns
    /\ runs' = runs + 1
    /\ IF ok THEN conn' = TRUE /\ mode' = "ingest" /\ epc' = "poll"
             ELSE conn' = conn /\ mode' = "none" /\ epc' = "idle"
    /\ UNCHANGED << mailbox, msg_day, last_uid, criteria, uid_list, results,
                    fetched, raw_msg, s3_puts, yielded, messages_ingested, op >>
    /\ UNCHANGED notEmailVars

\* backfill(request): connect, start S3, then search_by_date_range builds
\* its criteria and enters _search_and_fetch
StartBackfill(ok, since, before) ==
    /\ epc = "idle"
    /\ runs < MaxRuns
    /\ runs' = runs + 1
    /\ IF ok
       THEN /\ conn' = TRUE
            /\ mode' = "backfill"
            /\ epc' = "search"
            /\ criteria' = DateCriteria(since, before)
            /\ op' = StartOp("search_by_date")
       ELSE /\ conn' = conn
            /\ mode' = "none"
            /\ epc' = "idle"
            /\ UNCHANGED << criteria, op >>
    /\ UNCHANGED << mailbox, msg_day, last_uid, uid_list, results, fetched,
                    raw_msg, s3_puts, yielded, messages_ingested >>
    /\ UNCHANGED notEmailVars

\* poll_new_messages: build the criteria and enter _search_and_fetch
PollNewMessages ==
    /\ epc = "poll"
    /\ conn
    /\ criteria' = PollCriteria(last_uid)
    /\ op' = StartOp("poll")
    /\ epc' = "search"
    /\ UNCHANGED << mailbox, msg_day, last_uid, conn, mode, uid_list, results,
                    fetched, raw_msg, s3_puts, yielded, messages_ingested, runs >>
    /\ UNCHANGED notEmailVars

\* classes of the exceptions a mailbox command can raise: imaplib.IMAP4.error
\* (caught by ingest) and anything else, such as OSError (not caught)
ExcKinds == {"imap_error", "os_error"}

\* an exception of class `kind` leaves _search_and_fetch: ingest catches
\* imaplib.IMAP4.error and goes on to reconnect; every other exception, and
\* every exception during backfill, ends the generator through its finally
\* block (disconnect)
SearchAndFetchRaised(kind) ==
    /\ op' = [op EXCEPT !.state = "raised", !.error = kind]
    /\ uid_list' = << >>
    /\ results' = << >>
    /\ IF mode = "ingest" /\ kind = "imap_error"
       THEN epc' = "reconnect" /\ conn' = conn /\ mode' = mode
       ELSE epc' = "idle" /\ conn' = FALSE /\ mode' = "none"

\* _search_and_fetch returns `res` to poll_new_messages / search_by_date_range
\* and from there to ingest / backfill, which iterates it
SearchAndFetchReturned(res) ==
    /\ op' = [op EXCEPT !.state = "returned", !.result = res]
    /\ fetched' = res
    /\ uid_list' = << >>
    /\ results' = << >>
    /\ epc' = "process"

\* conn.uid("SEARCH", None, criteria) answers OK
SearchOk ==
    /\ epc = "search"
    /\ LET listed == SearchResponse(criteria, mailbox, msg_day)
       IN IF listed = {}
          THEN \* `not data[0]`: return []
               SearchAndFetchReturned(<< >>)
          ELSE /\ uid_list' = Ascending(listed)
               /\ results' = << >>
               /\ op' = [op EXCEPT !.listed = listed]
               /\ epc' = "fetch"
               /\ fetched' = fetched
    /\ UNCHANGED << mailbox, msg_day, last_uid, conn, mode, criteria, raw_msg,
                    s3_puts, yielded, messages_ingested, runs >>
    /\ UNCHANGED notEmailVars

\* conn.uid("SEARCH", ...) answers with a status other than OK: return []
SearchNotOk ==
    /\ epc = "search"
    /\ SearchAndFetchReturned(<< >>)
    /\ UNCHANGED << mailbox, msg_day, last_uid, conn, mode, criteria, raw_msg,
                    s3_puts, yielded, messages_ingested, runs >>
    /\ UNCHANGED notEmailVars

\* conn.uid("SEARCH", ...) raises
SearchRaises(kind) ==
    /\ epc = "search"
    /\ SearchAndFetchRaised(kind)
    /\ UNCHANGED << mailbox, msg_day, last_uid, criteria, fetched, raw_msg,
                    s3_puts, yielded, messages_ingested, runs >>
    /\ UNCHANGED notEmailVars

\* loop iteration over a UID that is not above the cursor: skipped
FetchSkip ==
    /\ epc = "fetch"
    /\ uid_list # << >>
    /\ AlreadySeen(Head(uid_list), last_uid)
    /\ uid_list' = Tail(uid_list)
    /\ UNCHANGED << mailbox, msg_day, last_uid, conn, epc, mode, criteria,
                    results, fetched, raw_msg, s3_puts, yielded,
                    messages_ingested, runs, op >>
    /\ UNCHANGED notEmailVars

\* loop iteration: FETCH answers OK with the message; it is appended to
\* results and the cursor moves to its UID
FetchOk ==
    /\ epc = "fetch"
    /\ uid_list # << >>
    /\ ~AlreadySeen(Head(uid_list), last_uid)
    /\ results' = Append(results, Head(uid_list))
    /\ last_uid' = AdvanceCursor(Head(uid_list), last_uid)
    /\ op' = [op EXCEPT !.fetch_ok = @ \cup {Head(uid_list)}]
    /\ uid_list' = Tail(uid_list)
    /\ UNCHANGED << mailbox, msg_day, conn, epc, mode, criteria, fetched,
                    raw_msg, s3_puts, yielded, messages_ingested, runs >>
    /\ UNCHANGED notEmailVars

\* the cursor update placed before the status check of the FETCH response
FetchNotOk_AdvancesCursor ==
    /\ epc = "fetch"
    /\ uid_list # << >>
    /\ ~AlreadySeen(Head(uid_list), last_uid)
    /\ last_uid' = AdvanceCursor(Head(uid_list), last_uid)
    /\ uid_list' = Tail(uid_list)
    /\ UNCHANGED << mailbox, msg_day, conn, epc, mode, criteria,
                    results, fetched, raw_msg, s3_puts, yielded,
                    messages_ingested, runs, op >>
    /\ UNCHANGED notEmailVars

\* loop iteration: FETCH answers with a status other than OK or with no
\* data: `continue`
FetchNotOk ==
    /\ epc = "fetch"
    /\ uid_list # << >>
    /\ ~AlreadySeen(Head(uid_list), last_uid)
    /\ uid_list' = Tail(uid_list)
    /\ UNCHANGED << mailbox, msg_day, last_uid, conn, epc, mode, criteria,
                    results, fetched, raw_msg, s3_puts, yielded,
                    messages_ingested, runs, op >>
    /\ UNCHANGED notEmailVars

\* loop iteration: FETCH raises; results is lost with the frame
FetchRaises(kind) ==
    /\ epc = "fetch"
    /\ uid_list # << >>
    /\ ~AlreadySeen(Head(uid_list), last_uid)
    /\ SearchAndFetchRaised(kind)
    /\ UNCHANGED << mailbox, msg_day, last_uid, criteria, fetched, raw_msg,
                    s3_puts, yielded, messages_ingested, runs >>
    /\ UNCHANGED notEmailVars

\* the loop is over: `return results`
SearchAndFetchDone ==
    /\ epc = "fetch"
    /\ uid_list = << >>
    /\ SearchAndFetchReturned(results)
    /\ UNCHANGED << mailbox, msg_day, last_uid, conn, mode, criteria, raw_msg,
                    s3_puts, yielded, messages_ingested, runs >>
    /\ UNCHANGED notEmailVars

\* ingest's `except imaplib.IMAP4.error`: connect again, then `continue`;
\* a connect that raises ends the generator through its finally block
Reconnect(ok) ==
    /\ epc = "reconnect"
    /\ IF ok THEN epc' = "poll" /\ conn' = TRUE /\ mode' = mode
             ELSE epc' = "idle" /\ conn' = FALSE /\ mode' = "none"
    /\ UNCHANGED << mailbox, msg_day, last_uid, criteria, uid_list, results,
                    fetched, raw_msg, s3_puts, yielded, messages_ingested,
                    runs, op >>
    /\ UNCHANGED notEmailVars

\* _process_email: upload_raw_eml puts the object, then the RawMessage is
\* built (ingest also counts it)
UploadRawEmlOk ==
    /\ epc = "process"
    /\ fetched # << >>
    /\ s3_puts' = Append(s3_puts, Head(fetched))
    /\ raw_msg' = Head(fetched)
    /\ messages_ingested' =
          IF mode = "ingest" THEN messages_ingested + 1 ELSE messages_ingested
    /\ epc' = "yield"
    /\ UNCHANGED << mailbox, msg_day, last_uid, conn, mode, criteria, uid_list,
                    results, fetched, yielded, runs, op >>
    /\ UNCHANGED notEmailVars

\* an upload failure that is swallowed: the RawMessage is built and yielded
\* although nothing was stored
UploadRawEmlFail_Swallowed ==
    /\ epc = "process"
    /\ fetched # << >>
    /\ raw_msg' = Head(fetched)
    /\ epc' = "yield"
    /\ UNCHANGED << mailbox, msg_day, last_uid, conn, mode, criteria, uid_list,
                    results, fetched, s3_puts, yielded, messages_ingested,
                    runs, op >>
    /\ UNCHANGED notEmailVars

\* _process_email: upload_raw_eml raises; the exception leaves the
\* generator through its finally block
UploadRawEmlFail ==
    /\ epc = "process"
    /\ fetched # << >>
    /\ fetched' = << >>
    /\ epc' = "idle"
    /\ conn' = FALSE
    /\ mode' = "none"
    /\ UNCHANGED << mailbox, msg_day, last_uid, criteria, uid_list, results,
                    raw_msg, s3_puts, yielded, messages_ingested, runs, op >>
    /\ UNCHANGED notEmailVars

\* `yield raw_msg`
Yield ==
    /\ epc = "yield"
    /\ yielded' = Append(yielded, raw_msg)
    /\ raw_msg' = 0
    /\ fetched' = Tail(fetched)
    /\ epc' = "process"
    /\ UNCHANGED << mailbox, msg_day, last_uid, conn, mode, criteria, uid_list,
                    results, s3_puts, messages_ingested, runs, op >>
    /\ UNCHANGED notEmailVars

\* ingest: the batch is processed, `await asyncio.sleep(poll_interval)`
PollInterval ==
    /\ epc = "process"
    /\ fetched = << >>
    /\ mode = "ingest"
    /\ epc' = "sleep"
    /\ UNCHANGED << mailbox, msg_day, last_uid, conn, mode, criteria, uid_list,
                    results, fetched, raw_msg, s3_puts, yielded,
                    messages_ingested, runs, op >>
    /\ UNCHANGED notEmailVars

\* ingest: the sleep is over, next iteration of `while True`
WakeUp ==
    /\ epc = "sleep"
    /\ epc' = "poll"
    /\ UNCHANGED << mailbox, msg_day, last_uid, conn, mode, criteria, uid_list,
                    results, fetched, raw_msg, s3_puts, yielded,
                    messages_ingested, runs, op >>
    /\ UNCHANGED notEmailVars

\* backfill: the batch is processed, the generator ends through its finally
BackfillDone ==
    /\ epc = "process"
    /\ fetched = << >>
    /\ mode = "backfill"
    /\ epc' = "idle"
    /\ conn' = FALSE
    /\ mode' = "none"
    /\ UNCHANGED << mailbox, msg_day, last_uid, criteria, uid_list, results,
                    fetched, raw_msg, s3_puts, yielded, messages_ingested,
                    runs, op >>
    /\ UNCHANGED notEmailVars

\* the consumer closes the generator while it is suspended in its sleep:
\* the finally block disconnects
GeneratorClose ==
    /\ epc = "sleep"
    /\ epc' = "idle"
    /\ conn' = FALSE
    /\ mode' = "none"
    /\ UNCHANGED << mailbox, msg_day, last_uid, criteria, uid_list, results,
                    fetched, raw_msg, s3_puts, yielded, messages_ingested,
                    runs, op >>
    /\ UNCHANGED notEmailVars

NextEmail ==
    \/ \E u \in 1 .. MaxUid, d \in Days : MailArrives(u, d)
    \/ \E ok \in BOOLEAN : StartIngest(ok)
    \/ \E ok \in BOOLEAN, since \in Days, before \in 1 .. NumDays + 1 :
          StartBackfill(ok, since, before)
    \/ PollNewMessages
    \/ SearchOk
    \/ SearchNotOk
    \/ \E kind \in ExcKinds : SearchRaises(kind)
    \/ FetchSkip
    \/ FetchOk
    \/ FetchNotOk
    \/ \E kind \in ExcKinds : FetchRaises(kind)
    \/ SearchAndFetchDone
    \/ \E ok \in BOOLEAN : Reconnect(ok)
    \/ UploadRawEmlOk
    \/ UploadRawEmlFail
    \/ Yield
    \/ PollInterval
    \/ WakeUp
    \/ BackfillDone
    \/ GeneratorClose

(* ======================================================================= *)
(* Stage-2 email processor                                                 *)
(* ======================================================================= *)

Records == 1 .. NumRecords

\* what the value of a raw-topic record can be, as _consume_loop tells them
\* apart: bytes that are not UTF-8 JSON, JSON that is not an object, an
\* object of another channel, an email object of another raw_format, an
\* email reference record
P_Kinds == {"undecodable", "not_object", "other_channel", "other_format",
            "eml_ref"}

\* records of the raw-messages topic; an email reference record points to a
\* raw EML with some number of attachments
P_Records ==
    {[kind |-> k, attachments |-> 0] : k \in P_Kinds \ {"eml_ref"}}
        \cup {[kind |-> "eml_ref", attachments |-> a] : a \in 0 .. MaxAttachments}

\* EmailProcessor.__init__ followed by the start of _consume_loop
InitProcessor ==
    /\ p_source = << >>
    /\ p_committed = 0
    /\ p_pc = "next"
    /\ p_shutdown_event = FALSE
    /\ p_uris = << >>
    /\ p_downloads = << >>
    /\ p_parses = << >>
    /\ p_uploads = << >>
    /\ p_publishes = << >>
    /\ p_parsed_topic = << >>
    /\ p_commits = << >>
    /\ p_messages_processed = 0
    /\ p_work = [r \in Records |-> "none"]
    /\ p_done = [r \in Records |-> "no"]
    /\ p_counted = [r \in Records |-> 0]

\* EmailProcessor.__init__ of a processor that is not run
InitProcessorIdle ==
    /\ p_source = << >>
    /\ p_committed = 0
    /\ p_pc = "off"
    /\ p_shutdown_event = FALSE
    /\ p_uris = << >>
    /\ p_downloads = << >>
    /\ p_parses = << >>
    /\ p_uploads = << >>
    /\ p_publishes = << >>
    /\ p_parsed_topic = << >>
    /\ p_commits = << >>
    /\ p_messages_processed = 0
    /\ p_work = [r \in Records |-> "none"]
    /\ p_done = [r \in Records |-> "no"]
    /\ p_counted = [r \in Records |-> 0]

\* the record the loop body is handling: the last one the consumer handed out
P_Current == Len(p_source)

\* `async for msg in self._consumer`: the consumer hands out the next record
P_Next(rec) ==
    /\ p_pc = "next"
    /\ Len(p_source) < NumRecords
    /\ p_source' = Append(p_source, rec)

\* `await self._consumer.commit()`: commits the position of the consumer,
\* which is one past the last record handed out, or raises
P_Commit(ok, line) ==
    /\ p_commits' = Append(p_commits,
                           [record |-> P_Current, ok |-> ok, line |-> line])
    /\ p_committed' = IF ok THEN Len(p_source) ELSE p_committed

\* a record arrives after the shutdown event was set: break
P_ConsumeBreak(rec) ==
    /\ P_Next(rec)
    /\ p_shutdown_event
    /\ p_pc' = "stopped"
    /\ p_work' = [p_work EXCEPT ![Len(p_source) + 1] = "dropped"]
    /\ p_done' = [p_done EXCEPT ![Len(p_source) + 1] = "break"]
    /\ UNCHANGED << p_committed, p_shutdown_event, p_uris, p_downloads,
                    p_parses, p_uploads, p_publishes, p_parsed_topic,
                    p_commits, p_messages_processed, p_counted >>
    /\ UNCHANGED notProcVars

\* json.loads(msg.value.decode("utf-8")) raises JSONDecodeError or
\* UnicodeDecodeError: warning, then commit
P_ConsumeInvalid(rec) ==
    /\ P_Next(rec)
    /\ ~p_shutdown_event
    /\ rec.kind = "undecodable"
    /\ p_pc' = "commit_invalid"
    /\ p_work' = [p_work EXCEPT ![Len(p_source) + 1] = "invalid"]
    /\ UNCHANGED << p_committed, p_shutdown_event, p_uris, p_downloads,
                    p_parses, p_uploads, p_publishes, p_parsed_topic,
                    p_commits, p_messages_processed, p_done, p_counted >>
    /\ UNCHANGED notProcVars

\* the JSON value is a list, a string, a number or null: raw_message.get
\* raises AttributeError outside every try block and the loop ends with it
P_ConsumeNotObject(rec) ==
    /\ P_Next(rec)
    /\ ~p_shutdown_event
    /\ rec.kind = "not_object"
    /\ p_pc' = "failed"
    /\ p_work' = [p_work EXCEPT ![Len(p_source) + 1] = "not_object"]
    /\ p_done' = [p_done EXCEPT ![Len(p_source) + 1] = "aborted"]
    /\ UNCHANGED << p_committed, p_shutdown_event, p_uris, p_downloads,
                    p_parses, p_uploads, p_publishes, p_parsed_topic,
                    p_commits, p_messages_processed, p_counted >>
    /\ UNCHANGED notProcVars

\* the filter: channel is not "email", or raw_format is not "eml_ref"
P_ConsumeFiltered_Processes(rec) ==
    /\ P_Next(rec)
    /\ ~p_shutdown_event
    /\ rec.kind \in {"other_channel", "other_format"}
    /\ p_pc' = "download"
    /\ p_uris' = << >>
    /\ p_work' = [p_work EXCEPT ![Len(p_source) + 1] = "taken"]
    /\ UNCHANGED << p_committed, p_shutdown_event, p_downloads,
                    p_parses, p_uploads, p_publishes, p_parsed_topic,
                    p_commits, p_messages_processed, p_done, p_counted >>
    /\ UNCHANGED notProcVars

P_ConsumeFiltered(rec) ==
    /\ P_Next(rec)
    /\ ~p_shutdown_event
    /\ rec.kind \in {"other_channel", "other_format"}
    /\ p_pc' = "commit_skip"
    /\ p_work' = [p_work EXCEPT ![Len(p_source) + 1] = "skipped"]
    /\ UNCHANGED << p_committed, p_shutdown_event, p_uris, p_downloads,
                    p_parses, p_uploads, p_publishes, p_parsed_topic,
                    p_commits, p_messages_processed, p_done, p_counted >>
    /\ UNCHANGED notProcVars

\* an email reference record enters _process_message
P_ConsumeEmlRef_CommitsFirst(rec) ==
    /\ P_Next(rec)
    /\ ~p_shutdown_event
    /\ rec.kind = "eml_ref"
    /\ p_pc' = "download"
    /\ p_uris' = << >>
    /\ p_committed' = Len(p_source) + 1
    /\ p_work' = [p_work EXCEPT ![Len(p_source) + 1] = "taken"]
    /\ UNCHANGED << p_shutdown_event, p_downloads,
                    p_parses, p_uploads, p_publishes, p_parsed_topic,
                    p_commits, p_messages_processed, p_done, p_counted >>
    /\ UNCHANGED notProcVars

P_ConsumeEmlRef(rec) ==
    /\ P_Next(rec)
    /\ ~p_shutdown_event
    /\ rec.kind = "eml_ref"
    /\ p_pc' = "download"
    /\ p_uris' = << >>
    /\ p_work' = [p_work EXCEPT ![Len(p_source) + 1] = "taken"]
    /\ UNCHANGED << p_committed, p_shutdown_event, p_downloads,
                    p_parses, p_uploads, p_publishes, p_parsed_topic,
                    p_commits, p_messages_processed, p_done, p_counted >>
    /\ UNCHANGED notProcVars

\* raw_bytes = await self._s3.download_raw_eml(s3_uri)
P_Download(ok) ==
    /\ p_pc = "download"
    /\ p_downloads' = Append(p_downloads, [record |-> P_Current, ok |-> ok])
    /\ p_pc' = IF ok THEN "parse" ELSE "commit_failed"
    /\ p_work' = IF ok THEN p_work
                 ELSE [p_work EXCEPT ![P_Current] = "failed_download"]
    /\ UNCHANGED << p_source, p_committed, p_shutdown_event, p_uris,
                    p_parses, p_uploads, p_publishes, p_parsed_topic,
                    p_commits, p_messages_processed, p_done, p_counted >>
    /\ UNCHANGED notProcVars

\* parsed = self._parser.parse(raw_bytes)
P_Parse(ok) ==
    /\ p_pc = "parse"
    /\ p_parses' = Append(p_parses, [record |-> P_Current, ok |-> ok])
    /\ p_pc' = IF ok THEN "upload" ELSE "commit_failed"
    /\ p_work' = IF ok THEN p_work
                 ELSE [p_work EXCEPT ![P_Current] = "failed_parse"]
    /\ UNCHANGED << p_source, p_committed, p_shutdown_event, p_uris,
                    p_downloads, p_uploads, p_publishes, p_parsed_topic,
                    p_commits, p_messages_processed, p_done, p_counted >>
    /\ UNCHANGED notProcVars

\* a put that raises is swallowed: its URI is listed and the next one is put
P_UploadAttachment_SwallowsFailure(ok) ==
    /\ p_pc = "upload"
    /\ Len(p_uris) < p_source[P_Current].attachments
    /\ p_uploads' = Append(p_uploads, [record |-> P_Current,
                                       part |-> Len(p_uris) + 1, ok |-> ok])
    /\ p_uris' = Append(p_uris, Len(p_uris) + 1)
    /\ UNCHANGED << p_source, p_committed, p_pc, p_shutdown_event,
                    p_downloads, p_parses, p_publishes, p_parsed_topic,
                    p_commits, p_messages_processed, p_work, p_done,
                    p_counted >>
    /\ UNCHANGED notProcVars

\* S3Store.upload_attachments: the attachments are put one after the other;
\* the first put that raises ends _process_message
P_UploadAttachment(ok) ==
    /\ p_pc = "upload"
    /\ Len(p_uris) < p_source[P_Current].attachments
    /\ p_uploads' = Append(p_uploads, [record |-> P_Current,
                                       part |-> Len(p_uris) + 1, ok |-> ok])
    /\ p_uris' = IF ok THEN Append(p_uris, Len(p_uris) + 1) ELSE p_uris
    /\ p_pc' = IF ok THEN "upload" ELSE "commit_failed"
    /\ p_work' = IF ok THEN p_work
                 ELSE [p_work EXCEPT ![P_Current] = "failed_upload"]
    /\ UNCHANGED << p_source, p_committed, p_shutdown_event, p_downloads,
                    p_parses, p_publishes, p_parsed_topic, p_commits,
                    p_messages_processed, p_done, p_counted >>
    /\ UNCHANGED notProcVars

\* await self._producer.send_and_wait(output_topic, ...), once
\* upload_attachments has returned the list of URIs
P_Publish(ok) ==
    /\ p_pc = "upload"
    /\ Len(p_uris) = p_source[P_Current].attachments
    /\ p_publishes' = Append(p_publishes, [record |-> P_Current, ok |-> ok])
    /\ p_parsed_topic' =
          IF ok THEN Append(p_parsed_topic, [raw_message_id |-> P_Current,
                                             attachment_refs |-> p_uris])
          ELSE p_parsed_topic
    /\ p_pc' = IF ok THEN "commit_done" ELSE "commit_failed"
    /\ p_work' = [p_work EXCEPT ![P_Current] =
                      IF ok THEN "published" ELSE "failed_publish"]
    /\ UNCHANGED << p_source, p_committed, p_shutdown_event, p_uris,
                    p_downloads, p_parses, p_uploads, p_commits,
                    p_messages_processed, p_done, p_counted >>
    /\ UNCHANGED notProcVars

\* the commit after the invalid-JSON warning; an exception of commit is
\* outside every try block and ends the loop
P_CommitInvalid(ok) ==
    /\ p_pc = "commit_invalid"
    /\ P_Commit(ok, 100)
    /\ p_pc' = IF ok THEN "next" ELSE "failed"
    /\ p_done' = [p_done EXCEPT ![P_Current] =
                      IF ok THEN "continued" ELSE "aborted"]
    /\ UNCHANGED << p_source, p_shutdown_event, p_uris, p_downloads,
                    p_parses, p_uploads, p_publishes, p_parsed_topic,
                    p_messages_processed, p_work, p_counted >>
    /\ UNCHANGED notProcVars

\* the commit of a filtered record
P_CommitSkip(ok) ==
    /\ p_pc = "commit_skip"
    /\ P_Commit(ok, IF p_source[P_Current].kind = "other_channel"
                    THEN 104 ELSE 107)
    /\ p_pc' = IF ok THEN "next" ELSE "failed"
    /\ p_done' = [p_done EXCEPT ![P_Current] =
                      IF ok THEN "continued" ELSE "aborted"]
    /\ UNCHANGED << p_source, p_shutdown_event, p_uris, p_downloads,
                    p_parses, p_uploads, p_publishes, p_parsed_topic,
                    p_messages_processed, p_work, p_counted >>
    /\ UNCHANGED notProcVars

\* the commit after _process_message returned, then the counter; an
\* exception of this commit is caught by `except Exception`
P_CommitProcessed(ok) ==
    /\ p_pc = "commit_done"
    /\ P_Commit(ok, 112)
    /\ p_pc' = IF ok THEN "next" ELSE "commit_failed"
    /\ p_messages_processed' =
          IF ok THEN p_messages_processed + 1 ELSE p_messages_processed
    /\ p_counted' = IF ok THEN [p_counted EXCEPT ![P_Current] = @ + 1]
                    ELSE p_counted
    /\ p_done' = IF ok THEN [p_done EXCEPT ![P_Current] = "continued"]
                 ELSE p_done
    /\ UNCHANGED << p_source, p_shutdown_event, p_uris, p_downloads,
                    p_parses, p_uploads, p_publishes, p_parsed_topic,
                    p_work >>
    /\ UNCHANGED notProcVars

\* the commit of the except block ("commit anyway"); an exception of this
\* commit ends the loop
P_CommitFailed_NoCommit(ok) ==
    /\ p_pc = "commit_failed"
    /\ p_pc' = "next"
    /\ p_done' = [p_done EXCEPT ![P_Current] = "continued"]
    /\ UNCHANGED << p_source, p_committed, p_commits, p_shutdown_event,
                    p_uris, p_downloads,
                    p_parses, p_uploads, p_publishes, p_parsed_topic,
                    p_messages_processed, p_work, p_counted >>
    /\ UNCHANGED notProcVars

P_CommitFailed(ok) ==
    /\ p_pc = "commit_failed"
    /\ P_Commit(ok, 121)
    /\ p_pc' = IF ok THEN "next" ELSE "failed"
    /\ p_done' = [p_done EXCEPT ![P_Current] =
                      IF ok THEN "continued" ELSE "aborted"]
    /\ UNCHANGED << p_source, p_shutdown_event, p_uris, p_downloads,
                    p_parses, p_uploads, p_publishes, p_parsed_topic,
                    p_messages_processed, p_work, p_counted >>
    /\ UNCHANGED notProcVars

\* SIGTERM / SIGINT: the signal handler sets the shutdown event
P_Shutdown ==
    /\ p_pc \notin {"off", "stopped", "failed", "killed"}
    /\ ~p_shutdown_event
    /\ p_shutdown_event' = TRUE
    /\ UNCHANGED << p_source, p_committed, p_pc, p_uris, p_downloads,
                    p_parses, p_uploads, p_publishes, p_parsed_topic,
                    p_commits, p_messages_processed, p_work, p_done,
                    p_counted >>
    /\ UNCHANGED notProcVars

\* the process dies (SIGKILL, out of memory, host loss) wherever it is
P_Kill ==
    /\ p_pc \notin {"off", "stopped", "failed", "killed"}
    /\ p_pc' = "killed"
    /\ UNCHANGED << p_source, p_committed, p_shutdown_event, p_uris,
                    p_downloads, p_parses, p_uploads, p_publishes,
                    p_parsed_topic, p_commits, p_messages_processed, p_work,
                    p_done, p_counted >>
    /\ UNCHANGED notProcVars

NextProcessor ==
    \/ \E rec \in P_Records : P_ConsumeBreak(rec)
    \/ \E rec \in P_Records : P_ConsumeInvalid(rec)
    \/ \E rec \in P_Records : P_ConsumeNotObject(rec)
    \/ \E rec \in P_Records : P_ConsumeFiltered(rec)
    \/ \E rec \in P_Records : P_ConsumeEmlRef(rec)
    \/ \E ok \in BOOLEAN : P_Download(ok)
    \/ \E ok \in BOOLEAN : P_Parse(ok)
    \/ \E ok \in BOOLEAN : P_UploadAttachment(ok)
    \/ \E ok \in BOOLEAN : P_Publish(ok)
    \/ \E ok \in BOOLEAN : P_CommitInvalid(ok)
    \/ \E ok \in BOOLEAN : P_CommitSkip(ok)
    \/ \E ok \in BOOLEAN : P_CommitProcessed(ok)
    \/ \E ok \in BOOLEAN : P_CommitFailed(ok)
    \/ P_Shutdown
    \/ P_Kill

(* ======================================================================= *)
(* Normalization service                                                   *)
(* ======================================================================= *)

\* what the value of a parsed-topic record can be, as _consume_loop tells
\* them apart: bytes that are not UTF-8 JSON, JSON that is not an object, an
\* object whose channel has no registered normalizer, an object whose channel
\* has one
N_Kinds == {"undecodable", "not_object", "unsupported", "supported"}

N_Records == {[kind |-> k] : k \in N_Kinds}

\* the counters of one record, or of the service
NoCount == [processed |-> 0, skipped |-> 0, failed |-> 0]

\* IngestionService.__init__ followed by the start of _consume_loop
InitIngestion ==
    /\ n_source = << >>
    /\ n_committed = 0
    /\ n_pc = "next"
    /\ n_shutdown_event = FALSE
    /\ n_normalizes = << >>
    /\ n_kafka_writes = << >>
    /\ n_s3_writes = << >>
    /\ n_normalized_topic = << >>
    /\ n_s3_objects = << >>
    /\ n_commits = << >>
    /\ n_messages_processed = 0
    /\ n_messages_skipped = 0
    /\ n_messages_failed = 0
    /\ n_work = [r \in Records |-> "none"]
    /\ n_done = [r \in Records |-> "no"]
    /\ n_counted = [r \in Records |-> NoCount]

\* IngestionService.__init__ of a service that is not run
InitIngestionIdle ==
    /\ n_source = << >>
    /\ n_committed = 0
    /\ n_pc = "off"
    /\ n_shutdown_event = FALSE
    /\ n_normalizes = << >>
    /\ n_kafka_writes = << >>
    /\ n_s3_writes = << >>
    /\ n_normalized_topic = << >>
    /\ n_s3_objects = << >>
    /\ n_commits = << >>
    /\ n_messages_processed = 0
    /\ n_messages_skipped = 0
    /\ n_messages_failed = 0
    /\ n_work = [r \in Records |-> "none"]
    /\ n_done = [r \in Records |-> "no"]
    /\ n_counted = [r \in Records |-> NoCount]

\* the record the loop body is handling: the last one the consumer handed out
N_Current == Len(n_source)

\* `async for msg in self._consumer`: the consumer hands out the next record
N_Next(rec) ==
    /\ n_pc = "next"
    /\ Len(n_source) < NumRecords
    /\ n_source' = Append(n_source, rec)

\* `await self._consumer.commit()`: commits the position of the consumer,
\* which is one past the last record handed out, or raises
N_Commit(ok, line) ==
    /\ n_commits' = Append(n_commits,
                           [record |-> N_Current, ok |-> ok, line |-> line])
    /\ n_committed' = IF ok THEN Len(n_source) ELSE n_committed

\* self._messages_failed += 1, while handling record r
N_CountFailed(r) ==
    /\ n_messages_failed' = n_messages_failed + 1
    /\ n_counted' = [n_counted EXCEPT ![r].failed = @ + 1]

\* a record arrives after the shutdown event was set: break
N_ConsumeBreak(rec) ==
    /\ N_Next(rec)
    /\ n_shutdown_event
    /\ n_pc' = "stopped"
    /\ n_work' = [n_work EXCEPT ![Len(n_source) + 1] = "dropped"]
    /\ n_done' = [n_done EXCEPT ![Len(n_source) + 1] = "break"]
    /\ UNCHANGED << n_committed, n_shutdown_event, n_normalizes,
                    n_kafka_writes, n_s3_writes, n_normalized_topic,
                    n_s3_objects, n_commits, n_messages_processed,
                    n_messages_skipped, n_messages_failed, n_counted >>
    /\ UNCHANGED notNormVars

\* json.loads(msg.value.decode("utf-8")) raises JSONDecodeError or
\* UnicodeDecodeError: the failure is counted, then commit
N_ConsumeInvalid_NotCounted(rec) ==
    /\ N_Next(rec)
    /\ ~n_shutdown_event
    /\ rec.kind = "undecodable"
    /\ n_pc' = "commit_invalid"
    /\ n_work' = [n_work EXCEPT ![Len(n_source) + 1] = "invalid"]
    /\ UNCHANGED << n_committed, n_shutdown_event, n_normalizes,
                    n_kafka_writes, n_s3_writes, n_normalized_topic,
                    n_s3_objects, n_commits, n_messages_processed,
                    n_messages_skipped, n_messages_failed, n_counted,
                    n_done >>
    /\ UNCHANGED notNormVars

N_ConsumeInvalid(rec) ==
    /\ N_Next(rec)
    /\ ~n_shutdown_event
    /\ rec.kind = "undecodable"
    /\ N_CountFailed(Len(n_source) + 1)
    /\ n_pc' = "commit_invalid"
    /\ n_work' = [n_work EXCEPT ![Len(n_source) + 1] = "invalid"]
    /\ UNCHANGED << n_committed, n_shutdown_event, n_normalizes,
                    n_kafka_writes, n_s3_writes, n_normalized_topic,
                    n_s3_objects, n_commits, n_messages_processed,
                    n_messages_skipped, n_done >>
    /\ UNCHANGED notNormVars

\* the JSON value is a list, a string, a number or null: raw_message.get
\* raises AttributeError outside every try block and the loop ends with it
N_ConsumeNotObject(rec) ==
    /\ N_Next(rec)
    /\ ~n_shutdown_event
    /\ rec.kind = "not_object"
    /\ n_pc' = "failed"
    /\ n_work' = [n_work EXCEPT ![Len(n_source) + 1] = "not_object"]
    /\ n_done' = [n_done EXCEPT ![Len(n_source) + 1] = "aborted"]
    /\ UNCHANGED << n_committed, n_shutdown_event, n_normalizes,
                    n_kafka_writes, n_s3_writes, n_normalized_topic,
                    n_s3_objects, n_commits, n_messages_processed,
                    n_messages_skipped, n_messages_failed, n_counted >>
    /\ UNCHANGED notNormVars

\* self._registry.get(channel) is None: the skip is counted, then commit
N_ConsumeUnsupported_CountsFailed(rec) ==
    /\ N_Next(rec)
    /\ ~n_shutdown_event
    /\ rec.kind = "unsupported"
    /\ N_CountFailed(Len(n_source) + 1)
    /\ n_pc' = "commit_skip"
    /\ n_work' = [n_work EXCEPT ![Len(n_source) + 1] = "skipped"]
    /\ UNCHANGED << n_committed, n_shutdown_event, n_normalizes,
                    n_kafka_writes, n_s3_writes, n_normalized_topic,
                    n_s3_objects, n_commits, n_messages_processed,
                    n_messages_skipped, n_done >>
    /\ UNCHANGED notNormVars

N_ConsumeUnsupported(rec) ==
    /\ N_Next(rec)
    /\ ~n_shutdown_event
    /\ rec.kind = "unsupported"
    /\ n_messages_skipped' = n_messages_skipped + 1
    /\ n_counted' = [n_counted EXCEPT ![Len(n_source) + 1].skipped = @ + 1]
    /\ n_pc' = "commit_skip"
    /\ n_work' = [n_work EXCEPT ![Len(n_source) + 1] = "skipped"]
    /\ UNCHANGED << n_committed, n_shutdown_event, n_normalizes,
                    n_kafka_writes, n_s3_writes, n_normalized_topic,
                    n_s3_objects, n_commits, n_messages_processed,
                    n_messages_failed, n_done >>
    /\ UNCHANGED notNormVars

\* the registry has a normalizer for the channel: enter the try block
N_ConsumeSupported(rec) ==
    /\ N_Next(rec)
    /\ ~n_shutdown_event
    /\ rec.kind = "supported"
    /\ n_pc' = "normalize"
    /\ n_work' = [n_work EXCEPT ![Len(n_source) + 1] = "taken"]
    /\ UNCHANGED << n_committed, n_shutdown_event, n_normalizes,
                    n_kafka_writes, n_s3_writes, n_normalized_topic,
                    n_s3_objects, n_commits, n_messages_processed,
                    n_messages_skipped, n_messages_failed, n_counted,
                    n_done >>
    /\ UNCHANGED notNormVars

\* normalized = normalizer.normalize(raw_message); an exception is caught by
\* `except Exception`, which counts the failure
N_Normalize(ok) ==
    /\ n_pc = "normalize"
    /\ n_normalizes' = Append(n_normalizes, [record |-> N_Current, ok |-> ok])
    /\ n_pc' = IF ok THEN "kafka" ELSE "commit_failed"
    /\ n_work' = IF ok THEN n_work
                 ELSE [n_work EXCEPT ![N_Current] = "failed_normalize"]
    /\ IF ok THEN UNCHANGED << n_messages_failed, n_counted >>
       ELSE N_CountFailed(N_Current)
    /\ UNCHANGED << n_source, n_committed, n_shutdown_event, n_kafka_writes,
                    n_s3_writes, n_normalized_topic, n_s3_objects, n_commits,
                    n_messages_processed, n_messages_skipped, n_done >>
    /\ UNCHANGED notNormVars

\* _dual_write, first write: await self._producer.send_and_wait(...); an
\* exception leaves _dual_write and is caught by `except Exception`
N_KafkaWrite_NotCounted(ok) ==
    /\ n_pc = "kafka"
    /\ n_kafka_writes' = Append(n_kafka_writes,
                                [record |-> N_Current, ok |-> ok])
    /\ n_normalized_topic' =
          IF ok THEN Append(n_normalized_topic, N_Current)
          ELSE n_normalized_topic
    /\ n_pc' = IF ok THEN "s3" ELSE "commit_failed"
    /\ n_work' = IF ok THEN n_work
                 ELSE [n_work EXCEPT ![N_Current] = "failed_kafka"]
    /\ UNCHANGED << n_messages_failed, n_counted >>
    /\ UNCHANGED << n_source, n_committed, n_shutdown_event, n_normalizes,
                    n_s3_writes, n_s3_objects, n_commits,
                    n_messages_processed, n_messages_skipped, n_done >>
    /\ UNCHANGED notNormVars

N_KafkaWrite(ok) ==
    /\ n_pc = "kafka"
    /\ n_kafka_writes' = Append(n_kafka_writes,
                                [record |-> N_Current, ok |-> ok])
    /\ n_normalized_topic' =
          IF ok THEN Append(n_normalized_topic, N_Current)
          ELSE n_normalized_topic
    /\ n_pc' = IF ok THEN "s3" ELSE "commit_failed"
    /\ n_work' = IF ok THEN n_work
                 ELSE [n_work EXCEPT ![N_Current] = "failed_kafka"]
    /\ IF ok THEN UNCHANGED << n_messages_failed, n_counted >>
       ELSE N_CountFailed(N_Current)
    /\ UNCHANGED << n_source, n_committed, n_shutdown_event, n_normalizes,
                    n_s3_writes, n_s3_objects, n_commits,
                    n_messages_processed, n_messages_skipped, n_done >>
    /\ UNCHANGED notNormVars

\* _dual_write, second write: s3_uri = await self._s3.store(normalized);
\* when it returns, _dual_write returns and the record is counted processed
N_S3Store(ok) ==
    /\ n_pc = "s3"
    /\ n_s3_writes' = Append(n_s3_writes, [record |-> N_Current, ok |-> ok])
    /\ n_s3_objects' = IF ok THEN Append(n_s3_objects, N_Current)
                       ELSE n_s3_objects
    /\ n_pc' = IF ok THEN "commit_done" ELSE "commit_failed"
    /\ n_work' = [n_work EXCEPT ![N_Current] =
                      IF ok THEN "written" ELSE "failed_s3"]
    /\ IF ok
       THEN /\ n_messages_processed' = n_messages_processed + 1
            /\ n_counted' = [n_counted EXCEPT ![N_Current].processed = @ + 1]
            /\ UNCHANGED n_messages_failed
       ELSE /\ N_CountFailed(N_Current)
            /\ UNCHANGED n_messages_processed
    /\ UNCHANGED << n_source, n_committed, n_shutdown_event, n_normalizes,
                    n_kafka_writes, n_normalized_topic, n_commits,
                    n_messages_skipped, n_done >>
    /\ UNCHANGED notNormVars

\* the commit after the deserialize failure; an exception of commit is
\* outside every try block and ends the loop
N_CommitInvalid(ok) ==
    /\ n_pc = "commit_invalid"
    /\ N_Commit(ok, 123)
    /\ n_pc' = IF ok THEN "next" ELSE "failed"
    /\ n_done' = [n_done EXCEPT ![N_Current] =
                      IF ok THEN "continued" ELSE "aborted"]
    /\ UNCHANGED << n_source, n_shutdown_event, n_normalizes, n_kafka_writes,
                    n_s3_writes, n_normalized_topic, n_s3_objects,
                    n_messages_processed, n_messages_skipped,
                    n_messages_failed, n_work, n_counted >>
    /\ UNCHANGED notNormVars

\* the commit of a record without normalizer
N_CommitSkip(ok) ==
    /\ n_pc = "commit_skip"
    /\ N_Commit(ok, 132)
    /\ n_pc' = IF ok THEN "next" ELSE "failed"
    /\ n_done' = [n_done EXCEPT ![N_Current] =
                      IF ok THEN "continued" ELSE "aborted"]
    /\ UNCHANGED << n_source, n_shutdown_event, n_normalizes, n_kafka_writes,
                    n_s3_writes, n_normalized_topic, n_s3_objects,
                    n_messages_processed, n_messages_skipped,
                    n_messages_failed, n_work, n_counted >>
    /\ UNCHANGED notNormVars

\* the commit at the end of the try block; an exception of this commit is
\* caught by `except Exception`, which counts a failure
N_CommitProcessed(ok) ==
    /\ n_pc = "commit_done"
    /\ N_Commit(ok, 139)
    /\ n_pc' = IF ok THEN "next" ELSE "commit_failed"
    /\ n_done' = IF ok THEN [n_done EXCEPT ![N_Current] = "continued"]
                 ELSE n_done
    /\ IF ok THEN UNCHANGED << n_messages_failed, n_counted >>
       ELSE N_CountFailed(N_Current)
    /\ UNCHANGED << n_source, n_shutdown_event, n_normalizes, n_kafka_writes,
                    n_s3_writes, n_normalized_topic, n_s3_objects,
                    n_messages_processed, n_messages_skipped, n_work >>
    /\ UNCHANGED notNormVars

\* the commit of the except block; an exception of this commit ends the loop
N_CommitFailed(ok) ==
    /\ n_pc = "commit_failed"
    /\ N_Commit(ok, 148)
    /\ n_pc' = IF ok THEN "next" ELSE "failed"
    /\ n_done' = [n_done EXCEPT ![N_Current] =
                      IF ok THEN "continued" ELSE "aborted"]
    /\ UNCHANGED << n_source, n_shutdown_event, n_normalizes, n_kafka_writes,
                    n_s3_writes, n_normalized_topic, n_s3_objects,
                    n_messages_processed, n_messages_skipped,
                    n_messages_failed, n_work, n_counted >>
    /\ UNCHANGED notNormVars

\* SIGTERM / SIGINT: the signal handler sets the shutdown event
N_Shutdown ==
    /\ n_pc \notin {"off", "stopped", "failed", "killed"}
    /\ ~n_shutdown_event
    /\ n_shutdown_event' = TRUE
    /\ UNCHANGED << n_source, n_committed, n_pc, n_normalizes,
                    n_kafka_writes, n_s3_writes, n_normalized_topic,
                    n_s3_objects, n_commits, n_messages_processed,
                    n_messages_skipped, n_messages_failed, n_work, n_done,
                    n_counted >>
    /\ UNCHANGED notNormVars

\* the process dies (SIGKILL, out of memory, host loss) wherever it is
N_Kill ==
    /\ n_pc \notin {"off", "stopped", "failed", "killed"}
    /\ n_pc' = "killed"
    /\ UNCHANGED << n_source, n_committed, n_shutdown_event, n_normalizes,
                    n_kafka_writes, n_s3_writes, n_normalized_topic,
                    n_s3_objects, n_commits, n_messages_processed,
                    n_messages_skipped, n_messages_failed, n_work, n_done,
                    n_counted >>
    /\ UNCHANGED notNormVars

NextIngestion ==
    \/ \E rec \in N_Records : N_ConsumeBreak(rec)
    \/ \E rec \in N_Records : N_ConsumeInvalid(rec)
    \/ \E rec \in N_Records : N_ConsumeNotObject(rec)
    \/ \E rec \in N_Records : N_ConsumeUnsupported(rec)
    \/ \E rec \in N_Records : N_ConsumeSupported(rec)
    \/ \E ok \in BOOLEAN : N_Normalize(ok)
    \/ \E ok \in BOOLEAN : N_KafkaWrite(ok)
    \/ \E ok \in BOOLEAN : N_S3Store(ok)
    \/ \E ok \in BOOLEAN : N_CommitInvalid(ok)
    \/ \E ok \in BOOLEAN : N_CommitSkip(ok)
    \/ \E ok \in BOOLEAN : N_CommitProcessed(ok)
    \/ \E ok \in BOOLEAN : N_CommitFailed(ok)
    \/ N_Shutdown
    \/ N_Kill

\* the two consumer services are separate processes with separate state
NextConsumers == NextProcessor \/ NextIngestion

(* ======================================================================= *)
(* Connector life cycle                                                    *)
(* ======================================================================= *)

\* BaseConnector.__init__: run() not called yet, no task created
NoProbe == [path |-> "none", status |-> "none", code |-> 0]

InitRun ==
    /\ probe = NoProbe
    /\ shutdown_event = FALSE
    /\ rpc = "start_producer"
    /\ hpc = "not_started"
    /\ spc = "none"
    /\ lifecycle = << >>

\* a connector inside the task group of run(), both subsystems started
InitRunIdle ==
    /\ probe = NoProbe
    /\ shutdown_event = FALSE
    /\ rpc = "task_group"
    /\ hpc = "waiting"
    /\ spc = "serving"
    /\ lifecycle = << "producer.start", "ingestion_client.start" >>

\* BaseConnector.__init__ of a connector whose run() was not called yet,
\* configured with a single publish attempt (SpecDeliver explores the retry
\* budgets)
InitDeliverNotStarted ==
    /\ max_attempts = 1
    /\ http_enabled \in BOOLEAN
    /\ status = "starting"
    /\ next_message = 1
    /\ message = 0
    /\ dpc = "not_started"
    /\ attempt_number = 0
    /\ exc = "none"
    /\ send_raw_calls = << >>
    /\ raw_topic = << >>
    /\ dead_letter_calls = << >>
    /\ dead_letter_topic = << >>
    /\ submit_calls = << >>
    /\ http_posts = << >>
    /\ deliver_outcome = [m \in Messages |-> "none"]

\* SIGTERM / SIGINT after install_signal_handlers: the event is set
Shutdown ==
    /\ rpc \notin {"done", "raised"}
    /\ ~shutdown_event
    /\ shutdown_event' = TRUE
    /\ UNCHANGED << rpc, hpc, spc, lifecycle, status, dpc >>
    /\ UNCHANGED notRunVars

\* await self._producer.start(); an exception leaves run() before the try
RunStartProducer(ok) ==
    /\ rpc = "start_producer"
    /\ rpc' = IF ok THEN "start_client" ELSE "raised"
    /\ lifecycle' = IF ok THEN Append(lifecycle, "producer.start")
                    ELSE lifecycle
    /\ UNCHANGED << shutdown_event, hpc, spc, status, dpc >>
    /\ UNCHANGED notRunVars

\* await self._ingestion_client.start(), then the task group creates the
\* ingest loop task and the health server task
RunStartClient(ok) ==
    /\ rpc = "start_client"
    /\ rpc' = IF ok THEN "task_group" ELSE "raised"
    /\ lifecycle' = IF ok THEN Append(lifecycle, "ingestion_client.start")
                    ELSE lifecycle
    /\ dpc' = IF ok THEN "loop_start" ELSE dpc
    /\ hpc' = IF ok THEN "created" ELSE hpc
    /\ UNCHANGED << shutdown_event, spc, status >>
    /\ UNCHANGED notRunVars

\* the shutdown test placed after the delivery: the message handed over
\* with the event set is still delivered
IngestLoopBreak_Delivers ==
    /\ dpc = "loop_next"
    /\ next_message <= NumMessages
    /\ shutdown_event
    /\ message' = next_message
    /\ next_message' = next_message + 1
    /\ attempt_number' = 1
    /\ exc' = "none"
    /\ dpc' = "send_kafka"
    /\ deliver_outcome' = [deliver_outcome EXCEPT ![next_message] = "running"]
    /\ UNCHANGED << max_attempts, http_enabled, status, send_raw_calls,
                    raw_topic, dead_letter_calls, dead_letter_topic,
                    submit_calls, http_posts >>
    /\ UNCHANGED notDeliverVars

\* `async for message in iterator` with the shutdown event set: the message
\* the iterator hands over is dropped and the loop breaks
IngestLoopBreak ==
    /\ dpc = "loop_next"
    /\ next_message <= NumMessages
    /\ shutdown_event
    /\ next_message' = next_message + 1
    /\ dpc' = "loop_stopped"
    /\ deliver_outcome' = [deliver_outcome EXCEPT ![next_message] = "dropped"]
    /\ UNCHANGED << max_attempts, http_enabled, status, message,
                    attempt_number, exc, send_raw_calls, raw_topic,
                    dead_letter_calls, dead_letter_topic, submit_calls,
                    http_posts >>
    /\ UNCHANGED notDeliverVars

\* the iterator raises (self.ingest() fails): `except Exception` sets
\* DEGRADED and re-raises
IngestLoopRaises_KeepsRunning ==
    /\ dpc = "loop_next"
    /\ dpc' = "loop_failed"
    /\ UNCHANGED << max_attempts, http_enabled, status, next_message, message,
                    attempt_number, exc, send_raw_calls, raw_topic,
                    dead_letter_calls, dead_letter_topic, submit_calls,
                    http_posts, deliver_outcome >>
    /\ UNCHANGED notDeliverVars

IngestLoopRaises ==
    /\ dpc = "loop_next"
    /\ status' = "degraded"
    /\ dpc' = "loop_failed"
    /\ UNCHANGED << max_attempts, http_enabled, next_message, message,
                    attempt_number, exc, send_raw_calls, raw_topic,
                    dead_letter_calls, dead_letter_topic, submit_calls,
                    http_posts, deliver_outcome >>
    /\ UNCHANGED notDeliverVars

\* _run_health_server up to `await self._shutdown_event.wait()`: the app
\* and the server are built and serve_task is created. The ingest loop task
\* was created first, so its first step ran before
HealthServerStart ==
    /\ hpc = "created"
    /\ dpc # "loop_start"
    /\ hpc' = "waiting"
    /\ spc' = "serving"
    /\ UNCHANGED << shutdown_event, rpc, lifecycle, status, dpc >>
    /\ UNCHANGED notRunVars

\* create_health_app / uvicorn.Config / uvicorn.Server raises: the health
\* server task fails before it created serve_task
HealthServerFails ==
    /\ hpc = "created"
    /\ dpc # "loop_start"
    /\ hpc' = "failed"
    /\ UNCHANGED << shutdown_event, rpc, spc, lifecycle, status, dpc >>
    /\ UNCHANGED notRunVars

\* server.serve() raises: serve_task holds the exception until it is awaited
ServeFails ==
    /\ spc = "serving"
    /\ spc' = "failed"
    /\ UNCHANGED << shutdown_event, rpc, hpc, lifecycle, status, dpc >>
    /\ UNCHANGED notRunVars

\* the wait returns once the event is set: server.should_exit = True
HealthServerWake ==
    /\ hpc = "waiting"
    /\ shutdown_event
    /\ hpc' = "exiting"
    /\ UNCHANGED << shutdown_event, rpc, spc, lifecycle, status, dpc >>
    /\ UNCHANGED notRunVars

\* server.serve() sees should_exit and returns
ServeExit ==
    /\ spc = "serving"
    /\ hpc = "exiting"
    /\ spc' = "done"
    /\ UNCHANGED << shutdown_event, rpc, hpc, lifecycle, status, dpc >>
    /\ UNCHANGED notRunVars

\* `await serve_task` returns, or raises the exception of server.serve()
HealthServerExit ==
    /\ hpc = "exiting"
    /\ spc \in {"done", "failed"}
    /\ hpc' = IF spc = "done" THEN "done" ELSE "failed"
    /\ UNCHANGED << shutdown_event, rpc, spc, lifecycle, status, dpc >>
    /\ UNCHANGED notRunVars

\* the ingest loop task failed: the task group cancels the health server
\* task, which gets CancelledError at its await. Waiting for the event it
\* leaves serve_task running; awaiting serve_task it cancels serve_task too
TaskGroupCancelsHealthServer ==
    /\ rpc = "task_group"
    /\ dpc = "loop_failed"
    /\ hpc \in {"created", "waiting", "exiting"}
    /\ hpc' = "cancelled"
    /\ spc' = IF hpc = "exiting" /\ spc = "serving" THEN "cancelled" ELSE spc
    /\ UNCHANGED << shutdown_event, rpc, lifecycle, status, dpc >>
    /\ UNCHANGED notRunVars

\* the health server task failed: the task group cancels the ingest loop
\* task, which gets CancelledError at its await, inside `async for` or
\* inside _deliver; CancelledError is no Exception, so the status is kept
TaskGroupCancelsIngestLoop ==
    /\ rpc = "task_group"
    /\ hpc = "failed"
    /\ dpc \in {"loop_next", "send_kafka", "dead_letter", "submit"}
    /\ dpc' = "loop_cancelled"
    /\ deliver_outcome' =
          IF dpc = "loop_next" THEN deliver_outcome
          ELSE [deliver_outcome EXCEPT ![message] = "cancelled"]
    /\ UNCHANGED << shutdown_event, rpc, hpc, spc, lifecycle, status >>
    /\ UNCHANGED << max_attempts, http_enabled, next_message, message,
                    attempt_number, exc, send_raw_calls, raw_topic,
                    dead_letter_calls, dead_letter_topic, submit_calls,
                    http_posts, emailVars, procVars, normVars, backoffVars,
                    probeVars, serviceVars, normalizerVars,
       storeVars >>

\* both tasks are over: the task group exits, `except* Exception` swallows
\* the error of the failed task, `finally` sets STOPPING
TaskGroupExit ==
    /\ rpc = "task_group"
    /\ dpc \in {"loop_stopped", "loop_failed", "loop_cancelled"}
    /\ hpc \in {"done", "cancelled", "failed"}
    /\ status' = "stopping"
    /\ rpc' = "stop_client"
    /\ UNCHANGED << shutdown_event, hpc, spc, lifecycle, dpc >>
    /\ UNCHANGED notRunVars

\* await self._ingestion_client.stop(); an exception leaves run()
RunStopClient(ok) ==
    /\ rpc = "stop_client"
    /\ rpc' = IF ok THEN "stop_producer" ELSE "raised"
    /\ lifecycle' = IF ok THEN Append(lifecycle, "ingestion_client.stop")
                    ELSE lifecycle
    /\ UNCHANGED << shutdown_event, hpc, spc, status, dpc >>
    /\ UNCHANGED notRunVars

\* await self._producer.stop(), then status STOPPED; an exception leaves
\* run() with the status still STOPPING
RunStopProducer(ok) ==
    /\ rpc = "stop_producer"
    /\ rpc' = IF ok THEN "done" ELSE "raised"
    /\ lifecycle' = IF ok THEN Append(lifecycle, "producer.stop")
                    ELSE lifecycle
    /\ status' = IF ok THEN "stopped" ELSE status
    /\ UNCHANGED << shutdown_event, hpc, spc, dpc >>
    /\ UNCHANGED notRunVars

\* asyncio.run(connector.run()): once run() is over the event loop cancels
\* the tasks that are left and closes
EventLoopClose ==
    /\ rpc \in {"done", "raised"}
    /\ spc = "serving"
    /\ spc' = "cancelled"
    /\ UNCHANGED << shutdown_event, rpc, hpc, lifecycle, status, dpc >>
    /\ UNCHANGED notRunVars

\* /health answers 200 to every status
HealthCode_AlwaysHealthy(s) == 200

\* the status code of GET /health for connector.status = s
HealthCode(s) == IF s \in {"running", "starting"} THEN 200 ELSE 503

\* the status code of GET /ready for connector.status = s
ReadyCode(s) == IF s = "running" THEN 200 ELSE 503

\* GET /health answered by the serving health app: health_check() returns
\* the details and the code follows connector.status
GetHealth ==
    /\ spc = "serving"
    /\ probe' = [path |-> "/health", status |-> status,
                 code |-> HealthCode(status)]
    /\ UNCHANGED notProbeVars

\* GET /ready answered by the serving health app
GetReady ==
    /\ spc = "serving"
    /\ probe' = [path |-> "/ready", status |-> status,
                 code |-> ReadyCode(status)]
    /\ UNCHANGED notProbeVars

\* the steps of _deliver, which end once started
DeliverStep ==
    \/ SendKafkaOk
    \/ \E e \in Errors : SendKafkaFail(e)
    \/ DeadLetterSendOk
    \/ \E e \in Errors : DeadLetterSendFail(e)
    \/ SubmitDisabled
    \/ \E ok \in BOOLEAN : Submit(ok)

\* what the source of messages decides: hand over a message, end, raise
SourceStep ==
    \/ IngestLoopNext
    \/ IngestLoopBreak
    \/ IngestLoopEnd
    \/ IngestLoopRaises

NextRun ==
    \/ Shutdown
    \/ \E ok \in BOOLEAN : RunStartProducer(ok)
    \/ \E ok \in BOOLEAN : RunStartClient(ok)
    \/ IngestLoopStart
    \/ SourceStep
    \/ DeliverStep
    \/ HealthServerStart
    \/ HealthServerFails
    \/ ServeFails
    \/ HealthServerWake
    \/ ServeExit
    \/ HealthServerExit
    \/ TaskGroupCancelsHealthServer
    \/ TaskGroupCancelsIngestLoop
    \/ TaskGroupExit
    \/ \E ok \in BOOLEAN : RunStopClient(ok)
    \/ \E ok \in BOOLEAN : RunStopProducer(ok)
    \/ EventLoopClose
    \/ GetHealth
    \/ GetReady

(* ======================================================================= *)
(* Consumer services: run() (EmailProcessor.run, IngestionService.run)     *)
(* ======================================================================= *)

\* __init__: no consumer, run() not called
InitService ==
    /\ s_rpc = "constructed"
    /\ s_consumer = "None"
    /\ s_attached = FALSE
    /\ s_spc = "none"

\* a service inside the task group of run()
InitServiceIdle ==
    /\ s_rpc = "task_group"
    /\ s_consumer = "consumer"
    /\ s_attached = TRUE
    /\ s_spc = "serving"

\* IngestionService.is_ready and the is_ready of the Stage-2 /ready probe
is_ready == s_consumer # "None"

\* the status code of the services' GET /ready
ServiceReadyCode == IF is_ready THEN 200 ELSE 503

\* position of the consume loop of the service that runs
LoopPc == IF p_pc # "off" THEN p_pc ELSE n_pc

\* the shutdown event of the service that runs
LoopShutdown == p_shutdown_event \/ n_shutdown_event

\* run() up to the first await: the consumer and producer objects are built
\* and assigned
ServiceRun ==
    /\ s_rpc = "constructed"
    /\ s_consumer' = "consumer"
    /\ s_rpc' = "s3_start"
    /\ UNCHANGED << s_attached, s_spc >>
    /\ UNCHANGED notServiceVars

\* await self._s3.start()
ServiceS3Start(ok) ==
    /\ s_rpc = "s3_start"
    /\ s_rpc' = IF ok THEN "consumer_start" ELSE "raised"
    /\ UNCHANGED << s_consumer, s_attached, s_spc >>
    /\ UNCHANGED notServiceVars

\* await self._consumer.start()
ServiceConsumerStart(ok) ==
    /\ s_rpc = "consumer_start"
    /\ s_rpc' = IF ok THEN "producer_start" ELSE "raised"
    /\ s_attached' = ok
    /\ UNCHANGED << s_consumer, s_spc >>
    /\ UNCHANGED notServiceVars

\* await self._producer.start(), then the task group is entered
ServiceProducerStart(ok) ==
    /\ s_rpc = "producer_start"
    /\ s_rpc' = IF ok THEN "task_group" ELSE "raised"
    /\ UNCHANGED << s_consumer, s_attached, s_spc >>
    /\ UNCHANGED notServiceVars

\* _run_health_server: the serve task is created while the consume loop
\* waits for its first record
ServiceServeStart ==
    /\ s_rpc = "task_group"
    /\ s_spc = "none"
    /\ s_spc' = "serving"
    /\ UNCHANGED << s_rpc, s_consumer, s_attached >>
    /\ UNCHANGED notServiceVars

\* the shutdown event wakes the health task, which asks the server to exit
ServiceServeExit ==
    /\ s_rpc = "task_group"
    /\ s_spc = "serving"
    /\ LoopShutdown
    /\ s_spc' = "done"
    /\ UNCHANGED << s_rpc, s_consumer, s_attached >>
    /\ UNCHANGED notServiceVars

\* a step of the consume loop, which runs inside the task group
ServiceConsumeStep ==
    /\ s_rpc = "task_group"
    /\ s_spc # "none"
    /\ NextProcessor \/ NextIngestion

\* the task group is left: both tasks returned, or the consume loop raised
\* and the health task was cancelled (the serve task only if the health task
\* was awaiting it)
ServiceTaskGroupExit ==
    /\ s_rpc = "task_group"
    /\ \/ LoopPc = "stopped" /\ s_spc = "done" /\ s_spc' = s_spc
       \/ LoopPc = "failed" /\ s_spc' = s_spc
       \/ LoopPc = "failed" /\ s_spc = "serving" /\ LoopShutdown
            /\ s_spc' = "cancelled"
    /\ s_rpc' = "producer_stop"
    /\ UNCHANGED << s_consumer, s_attached >>
    /\ UNCHANGED notServiceVars

\* finally: await self._producer.stop()
ServiceProducerStop(ok) ==
    /\ s_rpc = "producer_stop"
    /\ s_rpc' = IF ok THEN "consumer_stop" ELSE "raised"
    /\ UNCHANGED << s_consumer, s_attached, s_spc >>
    /\ UNCHANGED notServiceVars

\* finally: await self._consumer.stop()
ServiceConsumerStop(ok) ==
    /\ s_rpc = "consumer_stop"
    /\ s_rpc' = IF ok THEN "s3_stop" ELSE "raised"
    /\ s_attached' = IF ok THEN FALSE ELSE s_attached
    /\ UNCHANGED << s_consumer, s_spc >>
    /\ UNCHANGED notServiceVars

\* finally: await self._s3.stop()
ServiceS3Stop(ok) ==
    /\ s_rpc = "s3_stop"
    /\ s_rpc' = IF ok THEN "done" ELSE "raised"
    /\ UNCHANGED << s_consumer, s_attached, s_spc >>
    /\ UNCHANGED notServiceVars

\* asyncio.run(service.run()): once run() is over the event loop cancels
\* the tasks that are left and closes
ServiceEventLoopClose ==
    /\ s_rpc \in {"done", "raised"}
    /\ s_spc = "serving"
    /\ s_spc' = "cancelled"
    /\ UNCHANGED << s_rpc, s_consumer, s_attached >>
    /\ UNCHANGED notServiceVars

NextService ==
    \/ ServiceRun
    \/ \E ok \in BOOLEAN : ServiceS3Start(ok)
    \/ \E ok \in BOOLEAN : ServiceConsumerStart(ok)
    \/ \E ok \in BOOLEAN : ServiceProducerStart(ok)
    \/ ServiceServeStart
    \/ ServiceServeExit
    \/ ServiceConsumeStep
    \/ ServiceTaskGroupExit
    \/ \E ok \in BOOLEAN : ServiceProducerStop(ok)
    \/ \E ok \in BOOLEAN : ServiceConsumerStop(ok)
    \/ \E ok \in BOOLEAN : ServiceS3Stop(ok)
    \/ ServiceEventLoopClose

(* ======================================================================= *)
(* Normalization: EmailNormalizer, and the attachment keys of Stage-2      *)
(* ======================================================================= *)

\* the spellings of domains in addresses and in the configuration
Spellings == {"acme.com", "ACME.COM", "gmail.com"}

\* str.lower()
Lower(d) == IF d = "ACME.COM" THEN "acme.com" ELSE d

\* an address header value: one that email.utils.parseaddr reads as
\* local@domain, or one without an @
Addresses ==
    [kind : {"addr"}, domain : Spellings] \cup
    {[kind |-> "garbage", domain |-> ""]}

\* the lists to, cc and bcc of a parsed message
RecipientLists ==
    UNION {[1 .. n -> Addresses] : n \in 0 .. MaxRecipients}

ParsedMessages ==
    [from_address : Addresses, to : RecipientLists, cc : RecipientLists,
     bcc : RecipientLists]

NoMessage == [from_address |-> "none"]

\* EmailNormalizer.__init__: the configured domains, lower-cased
MonitoredDomains(config) == {Lower(d) : d \in config}

\* _extract_domain without the lower-casing
extract_domain_CaseSensitive(address) ==
    IF address.kind = "addr" THEN address.domain ELSE ""

\* _extract_domain: the lower-cased part after the first @, "" without one
extract_domain(address) ==
    IF address.kind = "addr" THEN Lower(address.domain) ELSE ""

\* _detect_direction
detect_direction(msg) ==
    LET sender_monitored ==
            extract_domain(msg.from_address) \in monitored_domains
        all_recipients == msg.to \o msg.cc \o msg.bcc
        recipient_monitored ==
            \E i \in DOMAIN all_recipients :
                extract_domain(all_recipients[i]) \in monitored_domains
    IN  IF sender_monitored /\ recipient_monitored THEN "internal"
        ELSE IF sender_monitored THEN "outbound"
        ELSE IF recipient_monitored THEN "inbound"
        ELSE "inbound"

\* characters of file names: a hexadecimal digit, an underscore, a word
\* character that is no hexadecimal digit, a dot, and two characters that
\* are unsafe in keys
NameChars == {"a", "_", "z", ".", " ", "/"}

\* the characters matched by [\w.\-]
SafeChars == {"a", "_", "z", "."}

\* the characters matched by [a-f0-9]
HexChars == {"a", "1"}

\* width of the content hash prefix: hexdigest()[:12]
HashLen == 12

\* two content hashes
Hashes ==
    {[i \in 1 .. HashLen |-> "a"],
     [i \in 1 .. HashLen |-> IF i % 2 = 1 THEN "1" ELSE "a"]}

\* ParsedAttachment.filename: never empty (parser.py: filename or "unnamed")
Filenames == UNION {[1 .. n -> NameChars] : n \in 1 .. MaxNameLen}

\* _sanitize_filename: re.sub(r"[^\w.\-]", "_", name)
sanitize_filename(name) ==
    [i \in 1 .. Len(name) |-> IF name[i] \in SafeChars THEN name[i] ELSE "_"]

\* the s3:// URI of upload_attachment:
\* s3://{bucket}/{attachments_prefix}/{email_uid}/{content_hash}_{safe_name}
AttachmentUri(content_hash, filename) ==
    << "s", "3", ":", "/", "/", "b", "/", "p", "/", "1", "/" >>
        \o content_hash \o << "_" >> \o sanitize_filename(filename)

\* s3_uri.rsplit("/", 1)[-1]
LastSegment(uri) ==
    LET slashes == {i \in DOMAIN uri : uri[i] = "/"}
    IN  IF slashes = {} THEN uri
        ELSE SubSeq(uri, (CHOOSE i \in slashes : \A j \in slashes : j <= i) + 1,
                    Len(uri))

\* length of the longest prefix of seg matched by [a-f0-9]*
HexPrefixLen(seg) ==
    CHOOSE k \in 0 .. Len(seg) :
        /\ \A i \in 1 .. k : seg[i] \in HexChars
        /\ k < Len(seg) => seg[k + 1] \notin HexChars

\* the name is cut at the last underscore of the segment
extract_filename_from_uri_LastUnderscore(uri) ==
    LET seg == LastSegment(uri)
        us == {i \in DOMAIN seg : seg[i] = "_"}
    IN  IF us = {} THEN seg
        ELSE SubSeq(seg, (CHOOSE i \in us : \A j \in us : j <= i) + 1, Len(seg))

\* _extract_filename_from_uri: re.match(r"^[a-f0-9]+_(.+)$", last_segment);
\* the run of hexadecimal digits ends at the first character that is none,
\* which has to be the underscore, followed by at least one character
extract_filename_from_uri(uri) ==
    LET seg == LastSegment(uri)
        k == HexPrefixLen(seg)
    IN  IF k >= 1 /\ k + 1 < Len(seg) /\ seg[k + 1] = "_"
        THEN SubSeq(seg, k + 2, Len(seg))
        ELSE seg

\* an EmailNormalizer for every explored configuration, nothing normalized
InitNormalizer ==
    /\ monitored_domains \in
           {MonitoredDomains(c) : c \in SUBSET {"acme.com", "ACME.COM"}}
    /\ parsed = NoMessage
    /\ direction = "none"
    /\ att_filename = << >>
    /\ att_uri = << >>
    /\ att_name = << >>

\* an EmailNormalizer that is not used
InitNormalizerIdle ==
    /\ monitored_domains = {}
    /\ parsed = NoMessage
    /\ direction = "none"
    /\ att_filename = << >>
    /\ att_uri = << >>
    /\ att_name = << >>

\* normalize: the direction of a parsed message
DetectDirection ==
    /\ parsed = NoMessage
    /\ att_uri = << >>
    /\ \E msg \in ParsedMessages :
          /\ parsed' = msg
          /\ direction' = detect_direction(msg)
    /\ UNCHANGED << monitored_domains, att_filename, att_uri, att_name >>
    /\ UNCHANGED notNormalizerVars

\* Stage-2 upload_attachment: the attachment is stored and its URI returned
UploadAttachment ==
    /\ parsed = NoMessage
    /\ att_uri = << >>
    /\ \E content_hash \in Hashes, filename \in Filenames :
          /\ att_filename' = filename
          /\ att_uri' = AttachmentUri(content_hash, filename)
    /\ UNCHANGED << monitored_domains, parsed, direction, att_name >>
    /\ UNCHANGED notNormalizerVars

\* normalize, _build_attachments: the name of the attachment of a reference
BuildAttachment ==
    /\ att_uri # << >>
    /\ att_name = << >>
    /\ att_name' = extract_filename_from_uri(att_uri)
    /\ UNCHANGED << monitored_domains, parsed, direction, att_filename,
                    att_uri >>
    /\ UNCHANGED notNormalizerVars

NextNormalizer ==
    \/ DetectDirection
    \/ UploadAttachment
    \/ BuildAttachment

(* ======================================================================= *)
(* Retry backoff                                                           *)
(* ======================================================================= *)

Max(a, b) == IF a >= b THEN a ELSE b

Min(a, b) == IF a <= b THEN a ELSE b

\* b to the power e
RECURSIVE Pow(_, _)
Pow(b, e) == IF e = 0 THEN 1 ELSE b * Pow(b, e - 1)

\* tenacity wait_exponential(multiplier, min, max) with its default
\* exp_base = 2, after attempt number n:
\* max(max(0, min), min(multiplier * exp_base ** (n - 1), max))
wait_exponential(mult, min, max, n) ==
    Max(Max(0, min), Min(mult * Pow(2, n - 1), max))

\* the wait of with_retry(config): config.multiplier is tenacity's
\* multiplier, config.initial_wait_seconds its min and
\* config.max_wait_seconds its max
RetryWait(n) ==
    wait_exponential(multiplier, initial_wait_seconds, max_wait_seconds, n)

\* RetryConfig as configured, no attempt made
InitBackoff ==
    /\ initial_wait_seconds \in 1 .. MaxInitialWait
    /\ multiplier \in 1 .. MaxMultiplier
    /\ max_wait_seconds \in (1 .. MaxWaitBound) \cup {60}
    /\ failed_attempts = 0
    /\ wait = 0

\* the default RetryConfig, no attempt made
InitBackoffIdle ==
    /\ initial_wait_seconds = 1
    /\ multiplier = 2
    /\ max_wait_seconds = 60
    /\ failed_attempts = 0
    /\ wait = 0

\* an attempt fails and tenacity computes the wait before the next one
AttemptFails ==
    /\ failed_attempts < MaxAttemptsBound + 1
    /\ failed_attempts' = failed_attempts + 1
    /\ wait' = RetryWait(failed_attempts + 1)
    /\ UNCHANGED << initial_wait_seconds, multiplier, max_wait_seconds >>
    /\ UNCHANGED notBackoffVars

NextBackoff == AttemptFails


(* ======================================================================= *)
(* Normalized message store                                                *)
(* ======================================================================= *)

\* characters of a message_id: the three that store() rewrites and one it
\* keeps
IdChars == {"<", ">", "/", "_"}

MessageIds == UNION {[1 .. n -> IdChars] : n \in 1 .. MaxIdLen}

\* times of day of a timestamp
Hours == {"00", "23"}

\* the normalized messages store() is called with
NormalizedMessages ==
    [channel : {"email"}, timestamp : [day : Days, hour : Hours],
     message_id : MessageIds]

\* str.replace(c, "")
Remove(s, c) == SelectSeq(s, LAMBDA x : x # c)

\* str.replace(c, d)
Replace(s, c, d) == [i \in 1 .. Len(s) |-> IF s[i] = c THEN d ELSE s[i]]

\* message_id.replace("<", "").replace(">", "").replace("/", "_")
safe_id(message_id) ==
    Replace(Remove(Remove(message_id, "<"), ">"), "/", "_")

\* timestamp.strftime("%Y/%m/%d"): the calendar date, the time of day dropped
date_path(timestamp) == timestamp.day

\* f"{prefix}/{channel}/{date_path}/{safe_id}.json"
StoreKey(msg) ==
    << "normalized", "/", msg.channel, "/", date_path(msg.timestamp),
       "/" >> \o safe_id(msg.message_id) \o << ".json" >>

\* NormalizedS3Store after start(), over an empty bucket
InitStore ==
    /\ store_calls = << >>
    /\ bucket_objects = {}

\* store(message): put_object writes the body under the key, replacing the
\* object the key held
Store ==
    /\ Len(store_calls) < NumRecords
    /\ \E msg \in NormalizedMessages :
          /\ store_calls' = Append(store_calls, msg)
          /\ bucket_objects' =
                {o \in bucket_objects : o.key # StoreKey(msg)}
                    \cup {[key |-> StoreKey(msg),
                           message_id |-> msg.message_id]}
    /\ UNCHANGED notStoreVars

NextStore == Store

(* ======================================================================= *)
(* Specifications                                                          *)
(* ======================================================================= *)

\* a connector about to run its ingest loop, the mailbox side at rest
InitSpecDeliver ==
    /\ InitDeliver /\ InitEmail /\ InitProcessorIdle /\ InitIngestionIdle
    /\ InitRunIdle /\ InitBackoffIdle /\ InitServiceIdle
    /\ InitNormalizerIdle /\ InitStore

SpecDeliver == InitSpecDeliver /\ [][NextDeliver]_vars

\* the same connector over a broker client that also raises exceptions
\* outside the retryable set
InitSpecDeliverBase ==
    /\ InitDeliver /\ InitEmail /\ InitProcessorIdle /\ InitIngestionIdle
    /\ InitRunIdle /\ InitBackoffIdle /\ InitServiceIdle
    /\ InitNormalizerIdle /\ InitStore

SpecDeliverBase == InitSpecDeliverBase /\ [][NextDeliverBase]_vars

\* an email connector about to start, the delivery engine at rest
InitSpecEmail ==
    /\ InitDeliverIdle /\ InitEmail /\ InitProcessorIdle /\ InitIngestionIdle
    /\ InitRunIdle /\ InitBackoffIdle /\ InitServiceIdle
    /\ InitNormalizerIdle /\ InitStore

SpecEmail == InitSpecEmail /\ [][NextEmail]_vars

\* one of the two consumer services running, the connector at rest
InitSpecConsumers ==
    /\ InitDeliverIdle
    /\ InitEmail
    /\ InitRunIdle /\ InitBackoffIdle /\ InitServiceIdle
    /\ InitNormalizerIdle /\ InitStore
    /\ \/ InitProcessor /\ InitIngestionIdle
       \/ InitProcessorIdle /\ InitIngestion

SpecConsumers == InitSpecConsumers /\ [][NextConsumers]_vars

\* the backoff schedule of with_retry for every explored RetryConfig
InitSpecBackoff ==
    /\ InitDeliverIdle /\ InitEmail /\ InitProcessorIdle
    /\ InitIngestionIdle /\ InitRunIdle /\ InitBackoff /\ InitServiceIdle
    /\ InitNormalizerIdle /\ InitStore

SpecBackoff == InitSpecBackoff /\ [][NextBackoff]_vars

\* one consumer service, Stage-2 or Normalization, from construction
\* through run()
InitSpecService ==
    /\ InitDeliverIdle /\ InitEmail /\ InitRunIdle /\ InitBackoffIdle
    /\ InitService /\ InitNormalizerIdle /\ InitStore
    /\ \/ InitProcessor /\ InitIngestionIdle
       \/ InitProcessorIdle /\ InitIngestion

SpecService == InitSpecService /\ [][NextService]_vars

\* the email normalizer for every explored configuration, message and
\* attachment
InitSpecNormalizer ==
    /\ InitDeliverIdle /\ InitEmail /\ InitRunIdle /\ InitBackoffIdle
    /\ InitProcessorIdle /\ InitIngestionIdle /\ InitServiceIdle
    /\ InitNormalizer /\ InitStore

SpecNormalizer == InitSpecNormalizer /\ [][NextNormalizer]_vars

\* a step of the connector, the process being a connector
ConnectorStep ==
    /\ p_pc = "off"
    /\ n_pc = "off"
    /\ NextRun

\* one process up to and through its shutdown: a connector in run(), or one
\* of the two consumer services in its consume loop
InitSpecShutdown ==
    /\ InitEmail /\ InitBackoffIdle /\ InitServiceIdle /\ InitNormalizerIdle /\ InitStore
    /\ \/ InitDeliverNotStarted /\ InitRun
          /\ InitProcessorIdle /\ InitIngestionIdle
       \/ InitDeliverIdle /\ InitRunIdle
          /\ InitProcessor /\ InitIngestionIdle
       \/ InitDeliverIdle /\ InitRunIdle
          /\ InitProcessorIdle /\ InitIngestion

SpecShutdown == InitSpecShutdown /\ [][ConnectorStep \/ NextConsumers]_vars

\* a started NormalizedS3Store, everything else at rest
InitSpecStore ==
    /\ InitDeliverIdle /\ InitEmail /\ InitRunIdle /\ InitBackoffIdle
    /\ InitProcessorIdle /\ InitIngestionIdle /\ InitServiceIdle
    /\ InitNormalizerIdle /\ InitStore

SpecStore == InitSpecStore /\ [][NextStore]_vars

\* a connector from construction through run() to the end of teardown
InitSpecRun ==
    /\ InitDeliverNotStarted /\ InitEmail /\ InitProcessorIdle
    /\ InitIngestionIdle /\ InitRun /\ InitBackoffIdle /\ InitServiceIdle
    /\ InitNormalizerIdle /\ InitStore

SpecRun == InitSpecRun /\ [][NextRun]_vars

\* the event loop runs every task that can make a step, every await of
\* run() and of _deliver ends, and the signal handler runs; nothing is
\* assumed of the source of messages, which may stay silent for ever
FairRun ==
    /\ WF_vars(\E ok \in BOOLEAN : RunStartProducer(ok))
    /\ WF_vars(\E ok \in BOOLEAN : RunStartClient(ok))
    /\ WF_vars(IngestLoopStart)
    /\ WF_vars(DeliverStep)
    /\ WF_vars(HealthServerStart)
    /\ WF_vars(HealthServerWake)
    /\ WF_vars(ServeExit)
    /\ WF_vars(HealthServerExit)
    /\ WF_vars(TaskGroupCancelsHealthServer)
    /\ WF_vars(TaskGroupCancelsIngestLoop)
    /\ WF_vars(EventLoopClose)
    /\ WF_vars(TaskGroupExit)
    /\ WF_vars(\E ok \in BOOLEAN : RunStopClient(ok))
    /\ WF_vars(\E ok \in BOOLEAN : RunStopProducer(ok))

SpecRunFair == SpecRun /\ FairRun

(* ======================================================================= *)
(* Delivery engine: properties                                             *)
(* ======================================================================= *)

\* positions of the send_raw awaits made for message m
AttemptsOf(m) == {i \in DOMAIN send_raw_calls : send_raw_calls[i].message = m}

\* positions of the send_raw awaits of message m that succeeded
SuccessesOf(m) == {i \in AttemptsOf(m) : send_raw_calls[i].ok}

\* positions of the DeadLetterHandler.send awaits made for message m
DeadLettersOf(m) ==
    {i \in DOMAIN dead_letter_calls : dead_letter_calls[i].original_message = m}

\* positions of the dead-letter topic records of message m
DeadLetterRecordsOf(m) ==
    {i \in DOMAIN dead_letter_topic : dead_letter_topic[i].original_message = m}

\* positions of the ingestion_client.submit awaits made for message m
SubmitsOf(m) == {i \in DOMAIN submit_calls : submit_calls[i] = m}

\* positions of the POST requests made for message m
PostsOf(m) == {i \in DOMAIN http_posts : http_posts[i].message = m}

\* _deliver(m) is over, by return or by exception
Delivered(m) == deliver_outcome[m] \in {"returned", "raised"}

\* C1: _deliver never raises, whatever the outcomes of the broker publish,
\* the dead-letter publish and the HTTP forward: no call of _deliver ends
\* with an exception and the ingest loop is never degraded by a delivery.
C1_DeliverNeverRaises ==
    /\ \A m \in Messages : deliver_outcome[m] # "raised"
    /\ status # "degraded"

\* C2: success path and dead-letter path exclude each other: a message with
\* a successful broker publish has no DeadLetterHandler.send call, and a
\* message with a DeadLetterHandler.send call has no successful publish.
C2_SuccessExcludesDeadLetter ==
    \A m \in Messages : SuccessesOf(m) = {} \/ DeadLettersOf(m) = {}

\* C2 witness: a message was published after a failed attempt and delivered,
\* and another one was dead-lettered
C2_Witness ==
    /\ \E m \in Messages :
          /\ deliver_outcome[m] = "returned"
          /\ SuccessesOf(m) # {}
          /\ Cardinality(AttemptsOf(m)) > 1
    /\ \E m \in Messages : DeadLettersOf(m) # {}

\* C3: when every publish attempt of a message failed, exactly max_attempts
\* attempts were made and exactly one dead-letter envelope was built for it,
\* carrying the message, the text of the error of the last attempt and
\* attempts = max_attempts (and it is the one record of the message on the
\* dead-letter topic when its publish succeeded); no message ever gets more
\* than max_attempts attempts.
C3_RetryExhaustion ==
    \A m \in Messages :
        /\ Cardinality(AttemptsOf(m)) <= max_attempts
        /\ (Delivered(m) /\ SuccessesOf(m) = {}) =>
              /\ Cardinality(AttemptsOf(m)) = max_attempts
              /\ Cardinality(DeadLettersOf(m)) = 1
              /\ \A i \in DeadLettersOf(m) :
                    dead_letter_calls[i] =
                       DeadLetterEnvelope(
                          m,
                          send_raw_calls[SetMax(AttemptsOf(m))].error,
                          max_attempts)
              /\ deliver_outcome[m] = "returned" =>
                    /\ Cardinality(DeadLetterRecordsOf(m)) = 1
                    /\ \A i \in DeadLetterRecordsOf(m), j \in DeadLettersOf(m) :
                          dead_letter_topic[i] = dead_letter_calls[j]

\* C3 witness: a message exhausted a budget of several attempts whose first
\* and last errors differ, and was dead-lettered
C3_Witness ==
    \E m \in Messages :
        /\ deliver_outcome[m] = "returned"
        /\ SuccessesOf(m) = {}
        /\ max_attempts >= 2
        /\ DeadLetterRecordsOf(m) # {}
        /\ send_raw_calls[SetMin(AttemptsOf(m))].error
              # send_raw_calls[SetMax(AttemptsOf(m))].error

\* C4: when attempts 1..k-1 of a message fail and attempt k succeeds
\* (k <= max_attempts), exactly k attempts are made: the successful attempt
\* is the only successful one and the last one, and no dead-letter envelope
\* is built or published for the message.
C4_RetryThenSuccess ==
    \A m \in Messages :
        SuccessesOf(m) # {} =>
            /\ Cardinality(SuccessesOf(m)) = 1
            /\ SetMax(AttemptsOf(m)) \in SuccessesOf(m)
            /\ Cardinality(AttemptsOf(m)) <= max_attempts
            /\ DeadLettersOf(m) = {}
            /\ DeadLetterRecordsOf(m) = {}

\* C4 witness: a delivered message succeeded at its last allowed attempt,
\* after at least one failure
C4_Witness ==
    \E m \in Messages :
        /\ deliver_outcome[m] = "returned"
        /\ SuccessesOf(m) # {}
        /\ max_attempts >= 2
        /\ Cardinality(AttemptsOf(m)) = max_attempts

\* C5: when the broker publish of a message succeeded and its HTTP forward
\* raised, no dead-letter envelope exists for it, the publish was made once
\* (the record is once on the raw topic) and _deliver returned normally.
C5_HttpFailureIsSwallowed ==
    \A m \in Messages :
        (\E i \in PostsOf(m) : ~http_posts[i].ok) =>
            /\ DeadLettersOf(m) = {}
            /\ DeadLetterRecordsOf(m) = {}
            /\ Cardinality(SuccessesOf(m)) = 1
            /\ Cardinality({i \in DOMAIN raw_topic : raw_topic[i] = m}) = 1
            /\ deliver_outcome[m] = "returned"

\* C5 witness: the HTTP forward of a published message raised and the loop
\* went on to deliver the next message
C5_Witness ==
    \E m \in Messages :
        /\ \E i \in PostsOf(m) : ~http_posts[i].ok
        /\ \E n \in Messages : n > m /\ Delivered(n)

\* C6 as stated: every delivered message whose broker publish succeeded had
\* exactly one HTTP forward (request to the ingestion API) attempted, and
\* a dead-lettered message none.
C6_Original ==
    \A m \in Messages :
        /\ (Delivered(m) /\ SuccessesOf(m) # {}) => Cardinality(PostsOf(m)) = 1
        /\ DeadLettersOf(m) # {} => PostsOf(m) = {}

\* C6 amended: IngestionClient.submit is awaited exactly once for a message
\* whose broker publish succeeded, only after that success, and never for a
\* dead-lettered message; the HTTP request is made exactly once per submit
\* when the client is enabled and never when it is disabled.
C6_SubmitOnceAfterPublish ==
    \A m \in Messages :
        /\ Cardinality(SubmitsOf(m)) <= 1
        /\ SubmitsOf(m) # {} => SuccessesOf(m) # {}
        /\ (Delivered(m) /\ SuccessesOf(m) # {}) => Cardinality(SubmitsOf(m)) = 1
        /\ DeadLettersOf(m) # {} => SubmitsOf(m) = {} /\ PostsOf(m) = {}
        /\ Cardinality(PostsOf(m)) =
              (IF http_enabled THEN Cardinality(SubmitsOf(m)) ELSE 0)

\* C6 witness: with the client enabled, one message was published and
\* forwarded and another one was dead-lettered
C6_Witness ==
    /\ http_enabled
    /\ \E m \in Messages : Delivered(m) /\ PostsOf(m) # {}
    /\ \E m \in Messages : Delivered(m) /\ DeadLettersOf(m) # {}

(* ======================================================================= *)
(* Stage-1 email connector: properties                                     *)
(* ======================================================================= *)

\* UIDs of a list of fetched messages
Range(seq) == {seq[i] : i \in DOMAIN seq}

\* C7: claim-check ordering: the i-th RawMessage yielded by ingest or
\* backfill references the blob of the i-th successful upload, which
\* completed before the yield; an upload that raises yields nothing, so
\* there is never a yielded (or built) RawMessage without its stored blob.
C7_UploadBeforeYield ==
    /\ Len(yielded) <= Len(s3_puts)
    /\ \A i \in DOMAIN yielded : yielded[i] = s3_puts[i]
    /\ raw_msg # 0 => s3_puts # << >> /\ s3_puts[Len(s3_puts)] = raw_msg
    /\ Len(s3_puts) = Len(yielded) + (IF epc = "yield" THEN 1 ELSE 0)

\* C7 witness: a batch was cut short by an upload that raised, after an
\* earlier message of it was uploaded and yielded
C7_Witness ==
    /\ epc = "idle"
    /\ op.state = "returned"
    /\ yielded # << >>
    /\ yielded[Len(yielded)] \in Range(op.result)
    /\ \E u \in Range(op.result) : u \notin Range(yielded)

\* C8: a poll that raises an IMAP protocol error, during SEARCH or during
\* any FETCH, leaves the cursor at its value before the poll, and the poll
\* retried after the reconnect returns every mailbox message with a UID
\* greater than that cursor.
C8_FailedPollLosesNothing ==
    /\ (op.kind = "poll" /\ op.state = "raised" /\ op.error = "imap_error")
          => last_uid = op.cursor_before
    /\ (/\ op.kind = "poll" /\ op.state = "returned"
        /\ op.prev_kind = "poll" /\ op.prev_state = "raised"
        /\ op.prev_error = "imap_error")
          => \A u \in op.mailbox_start :
                u > op.prev_cursor_before => u \in Range(op.result)

\* C9: the cursor is monotonic: no step of a poll, a date-range search, a
\* failed poll or a reconnect lowers last_uid, and every step that changes
\* it sets it to the UID of a mailbox message whose FETCH succeeded in the
\* running operation.
C9_CursorMonotonic ==
    [][ /\ last_uid' >= last_uid
        /\ last_uid' # last_uid =>
              /\ last_uid' \in op'.fetch_ok
              /\ last_uid' \in mailbox
              /\ op'.state = "running" ]_vars

\* C9 witness: a poll failed after a FETCH of it had advanced the cursor,
\* and the connector reconnected
C9_Witness ==
    /\ epc = "poll"
    /\ op.kind = "poll"
    /\ op.state = "raised"
    /\ op.fetch_ok # {}
    /\ last_uid > op.cursor_before

\* C10 as stated: with the mailbox unchanged, a poll made after a completed
\* poll returns no message and leaves the cursor unchanged.
C10_Original ==
    (/\ op.kind = "poll" /\ op.state = "returned"
     /\ op.prev_kind = "poll" /\ op.prev_state = "returned"
     /\ op.prev_mailbox = mailbox)
       => op.result = << >> /\ last_uid = op.cursor_before

\* C10 amended: a poll made while no mailbox message has a UID above the
\* cursor (as after a completed poll that fetched every message it listed,
\* the mailbox being unchanged) returns no message and leaves the cursor
\* unchanged, also when the server's inclusive range lists the last seen
\* UID again.
C10_IdempotentAtBoundary ==
    (/\ op.kind = "poll" /\ op.state = "returned"
     /\ \A u \in mailbox : u <= op.cursor_before)
       => op.result = << >> /\ last_uid = op.cursor_before

\* C10 witness: the first poll of a two-message mailbox returned both
\* messages; the second one, over the unchanged mailbox, was answered with
\* the last seen UID and returned nothing
C10_Witness ==
    /\ op.kind = "poll" /\ op.state = "returned"
    /\ op.prev_kind = "poll" /\ op.prev_state = "returned"
    /\ Len(op.prev_result) = 2
    /\ op.prev_mailbox = mailbox
    /\ op.listed = {last_uid}
    /\ op.cursor_before = last_uid
    /\ op.result = << >>

\* C11: the Stage-1 cursor covers only finished work: every mailbox message
\* whose UID the cursor has reached or passed had its raw bytes uploaded to
\* the object store and its reference record yielded before.
C11_CursorAfterUnitOfWork ==
    \A u \in mailbox :
        u <= last_uid => u \in Range(s3_puts) /\ u \in Range(yielded)

(* ======================================================================= *)
(* Consumer services: properties                                           *)
(* ======================================================================= *)

\* Stage-2: the handling of a record is over, by publish, failure or skip
P_Finished == {"invalid", "skipped", "published", "failed_download",
               "failed_parse", "failed_upload", "failed_publish"}

\* Normalization: the handling of a record is over, by the dual write,
\* failure or skip
N_Finished == {"invalid", "skipped", "written", "failed_normalize",
               "failed_kafka", "failed_s3"}

\* C12: in the Stage-2 processor and the Normalization service a commit is
\* only awaited for a record whose handling has finished (output published,
\* handling failed, or record skipped); the committed offset covers a record
\* exactly when a commit made at or after that record succeeded; and a record
\* is taken only after the loop body of the record before it ended. So in
\* every state, a killed process included, a record whose handling has not
\* finished is uncommitted.
C12_CommitAfterHandling ==
    /\ \A i \in DOMAIN p_commits : p_work[p_commits[i].record] \in P_Finished
    /\ \A i \in DOMAIN n_commits : n_work[n_commits[i].record] \in N_Finished
    /\ \A r \in Records :
          /\ p_committed >= r <=>
                \E i \in DOMAIN p_commits :
                    p_commits[i].ok /\ p_commits[i].record >= r
          /\ n_committed >= r <=>
                \E i \in DOMAIN n_commits :
                    n_commits[i].ok /\ n_commits[i].record >= r
          /\ p_committed >= r => p_work[r] \in P_Finished
          /\ n_committed >= r => n_work[r] \in N_Finished
          /\ (r > 1 /\ r <= Len(p_source)) => p_done[r - 1] = "continued"
          /\ (r > 1 /\ r <= Len(n_source)) => n_done[r - 1] = "continued"

\* the processor is killed while it handles its second record, after an
\* attachment of that record was uploaded: record 1 is committed, record 2
\* is not
C12_Witness ==
    /\ p_pc = "killed"
    /\ Len(p_source) = 2
    /\ p_work[2] = "taken"
    /\ \E i \in DOMAIN p_uploads : p_uploads[i].record = 2 /\ p_uploads[i].ok
    /\ p_committed = 1

\* Stage-2: _process_message raised for the record
P_Failed == {"failed_download", "failed_parse", "failed_upload",
             "failed_publish"}

RECURSIVE SumTo(_, _)
SumTo(f, n) == IF n = 0 THEN 0 ELSE f[n] + SumTo(f, n - 1)

C17_DualWriteAttemptsBoth ==
    \A r \in DOMAIN n_source :
        n_work[r] \in {"written", "failed_kafka", "failed_s3"} =>
            /\ \E i \in DOMAIN n_kafka_writes : n_kafka_writes[i].record = r
            /\ \E i \in DOMAIN n_s3_writes : n_s3_writes[i].record = r

\* positions of the normalized-topic records written for record r
N_TopicRecordsOf(r) ==
    {i \in DOMAIN n_normalized_topic : n_normalized_topic[i] = r}

\* positions of the object-store copies written for record r
N_ObjectsOf(r) == {i \in DOMAIN n_s3_objects : n_s3_objects[i] = r}

C19_ShutdownIsLive ==
    shutdown_event ~> (status = "stopped" \/ rpc = "raised")

\* C20: every change of the connector status is one of starting -> running,
\* running -> degraded, running -> stopping, degraded -> stopping and
\* stopping -> stopped (so it never moves backwards); the status becomes
\* degraded in exactly the steps in which the ingest loop fails with an
\* exception, which leaves the loop task; and a stopped status never changes.
C20_StatusTransitions ==
    [][/\ status' # status =>
              << status, status' >> \in
                  {<< "starting", "running" >>, << "running", "degraded" >>,
                   << "running", "stopping" >>, << "degraded", "stopping" >>,
                   << "stopping", "stopped" >>}
       /\ (status' = "degraded" /\ status # "degraded")
              <=> (dpc' = "loop_failed" /\ dpc # "loop_failed")
       /\ status = "stopped" => status' = "stopped"]_vars

\* an ingest loop that failed degraded the connector, and run() then tore
\* it down through stopping to stopped
C20_Witness ==
    /\ status = "stopped"
    /\ dpc = "loop_failed"
    /\ hpc = "cancelled"
    /\ rpc = "done"

\* C21: when the ingest loop task or the health server task failed with an
\* exception and run() has returned, the sibling task is over too, the
\* health server no longer serves, and the connector status is stopped.
C21_TaskFailureTearsDown ==
    (rpc = "done" /\ (dpc = "loop_failed" \/ hpc = "failed")) =>
        /\ status = "stopped"
        /\ dpc \in {"loop_stopped", "loop_failed", "loop_cancelled"}
        /\ hpc \in {"done", "failed", "cancelled"}
        /\ spc # "serving"

\* number of times call x is in the log of subsystem calls that returned
CallsOf(x) == Cardinality({i \in DOMAIN lifecycle : lifecycle[i] = x})

\* C22: on every exit path of run(), by return or by exception, every
\* subsystem that was started has been stopped exactly once, the ingestion
\* client before the producer, and the connector status is stopped.
C22_TeardownOnEveryExit ==
    rpc \in {"done", "raised"} =>
        /\ status = "stopped"
        /\ CallsOf("producer.stop") = CallsOf("producer.start")
        /\ CallsOf("ingestion_client.stop") = CallsOf("ingestion_client.start")
        /\ \A i, j \in DOMAIN lifecycle :
              (lifecycle[i] = "producer.stop"
                   /\ lifecycle[j] = "ingestion_client.stop") => j < i

(* ======================================================================= *)
(* Delivery engine: retry policy properties                                *)
(* ======================================================================= *)

\* C23: a message whose broker publish raised an exception outside the
\* retryable set got exactly one publish attempt and was dead-lettered with
\* attempts = 1; and the attempts field of every dead-letter envelope is the
\* number of publish attempts made for its message.
C23_NonRetryableDeadLettered ==
    /\ \A m \in Messages :
          (Delivered(m) /\ \E i \in AttemptsOf(m) :
                               send_raw_calls[i].error = "BaseException") =>
              /\ Cardinality(AttemptsOf(m)) = 1
              /\ \E i \in DeadLettersOf(m) : dead_letter_calls[i].attempts = 1
    /\ \A i \in DOMAIN dead_letter_calls :
          dead_letter_calls[i].attempts =
              Cardinality(AttemptsOf(dead_letter_calls[i].original_message))

\* C24: the wait after the n-th failed publish attempt is
\* min(initial_wait_seconds * multiplier^(n-1), max_wait_seconds), for every
\* configured initial_wait_seconds, multiplier and max_wait_seconds.
C24_BackoffSchedule ==
    failed_attempts >= 1 =>
        wait = Min(initial_wait_seconds * Pow(multiplier, failed_attempts - 1),
                   max_wait_seconds)

(* ======================================================================= *)
(* Health probes                                                           *)
(* ======================================================================= *)

C26_ReadyMeansAttached ==
    /\ is_ready => s_attached
    /\ ServiceReadyCode = 200 => s_attached

(* ======================================================================= *)
(* Normalizer properties                                                   *)
(* ======================================================================= *)

\* C27: the direction is a total function of (sender domain monitored, some
\* to/cc/bcc recipient domain monitored), domains compared without regard to
\* case: (true, true) internal, (true, false) outbound, (false, true)
\* inbound, (false, false) inbound; an address that cannot be parsed counts
\* as not monitored.
C27_DirectionTable ==
    parsed # NoMessage =>
        LET Monitored(a) ==
                /\ a.kind = "addr"
                /\ \E d \in monitored_domains : Lower(d) = Lower(a.domain)
            sender == Monitored(parsed.from_address)
            recipient ==
                \/ \E i \in DOMAIN parsed.to : Monitored(parsed.to[i])
                \/ \E i \in DOMAIN parsed.cc : Monitored(parsed.cc[i])
                \/ \E i \in DOMAIN parsed.bcc : Monitored(parsed.bcc[i])
        IN  /\ sender /\ recipient => direction = "internal"
            /\ sender /\ ~recipient => direction = "outbound"
            /\ ~sender /\ recipient => direction = "inbound"
            /\ ~sender /\ ~recipient => direction = "inbound"

\* a sender spelled in upper case under a monitored domain, with only an
\* unparsable recipient, was found outbound
C27_Witness ==
    /\ parsed # NoMessage
    /\ monitored_domains = {"acme.com"}
    /\ parsed.from_address = [kind |-> "addr", domain |-> "ACME.COM"]
    /\ parsed.to = << [kind |-> "garbage", domain |-> ""] >>
    /\ parsed.cc = << >> /\ parsed.bcc = << >>
    /\ direction = "outbound"

\* C28: for every attachment that Stage-2 stored under
\* {12 hexadecimal digits}_{sanitized file name}, the name the normalizer
\* builds from the URI is exactly the sanitized file name, also when the
\* name contains underscores or starts with hexadecimal digits.
C28_AttachmentNameRoundTrip ==
    att_name # << >> => att_name = sanitize_filename(att_filename)

\* the name "a_a", hexadecimal digits around an underscore, came back whole
C28_Witness ==
    /\ att_filename = << "a", "_", "a" >>
    /\ att_name = << "a", "_", "a" >>

(* ======================================================================= *)
(* Email connector: cursor and fetch failures                              *)
(* ======================================================================= *)

\* C29: the cursor never passes over an unfetched message: a message with a
\* UID above the initial cursor and at or below last_uid was returned by a
\* poll, and a message whose FETCH answered non-OK or empty stays above the
\* cursor for a later poll. A UID above the cursor at the start of a poll
\* was returned by no earlier operation (a successful FETCH moves the cursor
\* to its UID), so when the poll has returned, every UID it listed between
\* the cursor before and the cursor after is in its result.
C29_CursorNeverPassesUnfetched ==
    (op.kind = "poll" /\ op.state = "returned") =>
        \A u \in op.listed :
            (u > op.cursor_before /\ u <= last_uid) => u \in Range(op.result)

(* ======================================================================= *)
(* Consumer services: record content                                       *)
(* ======================================================================= *)

\* C30: no record content can stop a consume loop: a record of any content
\* (undecodable bytes, invalid JSON, JSON that is no object, an object with
\* a missing or foreign channel) taken while shutdown is not set never ends
\* the loop with an exception by its content: the loop body of a record ends
\* with an exception only when a commit awaited for that record raised.
C30_ContentNeverStopsLoop ==
    /\ \A r \in DOMAIN p_source :
          p_done[r] = "aborted" =>
              \E i \in DOMAIN p_commits :
                  p_commits[i].record = r /\ ~p_commits[i].ok
    /\ \A r \in DOMAIN n_source :
          n_done[r] = "aborted" =>
              \E i \in DOMAIN n_commits :
                  n_commits[i].record = r /\ ~n_commits[i].ok

(* ======================================================================= *)
(* Shutdown: no new unit of work                                           *)
(* ======================================================================= *)

\* C31: no new unit of work starts after shutdown. Every step in which a
\* loop obtains its next item while its shutdown event is set drops the item
\* and ends the loop, and changes nothing else: a connector message dropped
\* this way never has a publish attempt, a dead-letter publish, a submit or
\* an HTTP request; a Stage-2 or Normalization record dropped this way has
\* no download, parse, upload, normalization, write, publish or commit made
\* for it, and the committed offset stays below it.
C31_NoWorkAfterShutdown ==
    [][ /\ (shutdown_event /\ next_message' # next_message) =>
              /\ deliver_outcome'[next_message] = "dropped"
              /\ dpc' = "loop_stopped"
              /\ UNCHANGED << send_raw_calls, raw_topic, dead_letter_calls,
                              dead_letter_topic, submit_calls, http_posts >>
        /\ \A m \in Messages :
              deliver_outcome'[m] = "dropped" =>
                  /\ \A i \in DOMAIN send_raw_calls' :
                        send_raw_calls'[i].message # m
                  /\ \A i \in DOMAIN dead_letter_calls' :
                        dead_letter_calls'[i].original_message # m
                  /\ \A i \in DOMAIN submit_calls' : submit_calls'[i] # m
                  /\ \A i \in DOMAIN http_posts' : http_posts'[i].message # m
        /\ (p_shutdown_event /\ p_source' # p_source) =>
              /\ p_work'[Len(p_source')] = "dropped"
              /\ p_pc' = "stopped"
              /\ UNCHANGED << p_committed, p_commits, p_downloads, p_parses,
                              p_uploads, p_publishes, p_parsed_topic,
                              p_messages_processed >>
        /\ (n_shutdown_event /\ n_source' # n_source) =>
              /\ n_work'[Len(n_source')] = "dropped"
              /\ n_pc' = "stopped"
              /\ UNCHANGED << n_committed, n_commits, n_normalizes,
                              n_kafka_writes, n_s3_writes, n_normalized_topic,
                              n_s3_objects, n_messages_processed,
                              n_messages_skipped, n_messages_failed >>
        /\ \A r \in Records :
              /\ p_work'[r] = "dropped" =>
                    /\ p_committed' < r
                    /\ \A i \in DOMAIN p_commits' : p_commits'[i].record # r
              /\ n_work'[r] = "dropped" =>
                    /\ n_committed' < r
                    /\ \A i \in DOMAIN n_commits' : n_commits'[i].record # r
      ]_vars

\* the first message was published, then shutdown was set and the second
\* message the iterator handed over was dropped
C31_Witness ==
    /\ shutdown_event
    /\ raw_topic = << 1 >>
    /\ deliver_outcome[2] = "dropped"
    /\ dpc = "loop_stopped"

(* ======================================================================= *)
(* Normalization: counters                                                 *)
(* ======================================================================= *)

\* C32: the Normalization counters partition the handled records: a record
\* taken while shutdown is not set never has more than one increment over
\* messages_processed, messages_skipped and messages_failed together, has
\* exactly one once its loop body is over (also when an offset commit
\* raised), the counters are the sums of these increments, and a record is
\* counted in messages_processed only when both writes of its dual write
\* succeeded.
C32_CountersPartition ==
    /\ n_messages_processed = SumTo([r \in Records |-> n_counted[r].processed], NumRecords)
    /\ n_messages_skipped = SumTo([r \in Records |-> n_counted[r].skipped], NumRecords)
    /\ n_messages_failed = SumTo([r \in Records |-> n_counted[r].failed], NumRecords)
    /\ \A r \in Records :
          LET count == n_counted[r].processed + n_counted[r].skipped
                           + n_counted[r].failed
          IN  /\ count <= 1
              /\ n_done[r] \in {"continued", "aborted"} => count = 1
              /\ n_counted[r].processed = 1 =>
                    /\ [record |-> r, ok |-> TRUE] \in Range(n_kafka_writes)
                    /\ [record |-> r, ok |-> TRUE] \in Range(n_s3_writes)

(* ======================================================================= *)
(* Delivery engine: order                                                  *)
(* ======================================================================= *)

\* C33: delivery is strictly sequential and order-preserving within a
\* connector: the n+1-th message enters _deliver only when the delivery of
\* the n-th has returned, every publish attempt, dead-letter publish, submit
\* and HTTP request is made for the one message being delivered, and the
\* raw topic holds the published messages in the order ingest yielded them.
C33_SequentialDelivery ==
    [][ /\ message' # message =>
              /\ message' = message + 1
              /\ message = 0 \/ deliver_outcome[message] = "returned"
              /\ UNCHANGED << send_raw_calls, raw_topic, dead_letter_calls,
                              dead_letter_topic, submit_calls, http_posts >>
        /\ send_raw_calls' # send_raw_calls =>
              /\ deliver_outcome[message] = "running"
              /\ send_raw_calls'[Len(send_raw_calls')].message = message
        /\ dead_letter_calls' # dead_letter_calls =>
              /\ deliver_outcome[message] = "running"
              /\ dead_letter_calls'[Len(dead_letter_calls')].original_message
                     = message
        /\ submit_calls' # submit_calls =>
              /\ deliver_outcome[message] = "running"
              /\ submit_calls'[Len(submit_calls')] = message
        /\ http_posts' # http_posts =>
              /\ deliver_outcome[message] = "running"
              /\ http_posts'[Len(http_posts')].message = message
        /\ \A i, j \in DOMAIN raw_topic' :
              i < j => raw_topic'[i] < raw_topic'[j]
      ]_vars

\* the first message was published after a failed attempt and forwarded,
\* then the second one was published
C33_Witness ==
    /\ raw_topic = << 1, 2 >>
    /\ \E i \in AttemptsOf(1) : ~send_raw_calls[i].ok
    /\ PostsOf(1) # {}
    /\ Delivered(2)

(* ======================================================================= *)
(* Stage-2: parsed record after the uploads                                *)
(* ======================================================================= *)

C35_BackfillIgnoresCursor ==
    (op.kind = "search_by_date" /\ op.state = "returned") =>
        \A u \in op.listed :
            u <= op.cursor_before => u \in Range(op.result)

\* C36: a date-range search leaves the live cursor unchanged: during and
\* after search_by_date_range, last_uid has the value it had when the
\* search started.
C36_BackfillKeepsCursor ==
    op.kind = "search_by_date" => last_uid = op.cursor_before

(* ======================================================================= *)
(* Stage-1 email connector: poll interval                                  *)
(* ======================================================================= *)

\* C37: between any two consecutive polls of the ingest loop the connector
\* sleeps for the poll interval: the loop comes to the point where it calls
\* poll_new_messages only from the start of ingest (first poll) or from the
\* end of its sleep, on every path, the reconnect after a failed poll
\* included.
C37_SleepBetweenPolls ==
    [][(epc' = "poll" /\ epc # "poll") => epc \in {"idle", "sleep"}]_vars

(* ======================================================================= *)
(* Normalized message store: object keys                                   *)
(* ======================================================================= *)

\* C38: the storage keys are injective per channel and date: two stored
\* normalized messages with the same channel and the same calendar date but
\* different message_id values have different object keys, and so the
\* object of every stored message is still in the bucket (no later message
\* with another id has replaced it).
C38_KeysInjective ==
    /\ \A i, j \in DOMAIN store_calls :
          (/\ store_calls[i].channel = store_calls[j].channel
           /\ store_calls[i].timestamp.day = store_calls[j].timestamp.day
           /\ store_calls[i].message_id # store_calls[j].message_id)
              => StoreKey(store_calls[i]) # StoreKey(store_calls[j])
    /\ \A i \in DOMAIN store_calls :
          [key |-> StoreKey(store_calls[i]),
           message_id |-> store_calls[i].message_id] \in bucket_objects
====
